---- MODULE Spec2Model ----
(***************************************************************************)
(* Environment identity resolution of data_product_tracker                 *)
(* (src/src/data_product_tracker/reflection.py and models/environment.py). *)
(*                                                                         *)
(* The relational store is shared; every process owns a session and a      *)
(* module-level EnvironmentCache.  Each SQL statement / transaction is one *)
(* atomic step, each Python call is a sequence of such steps.              *)
(***************************************************************************)
EXTENDS Integers, Sequences, FiniteSets, TLC

VARIABLES
    Variable,                \* table "variables": row i is the (key, value) of id i
    Library,                 \* table "libraries": row i is the (name, version) of id i
    Environment,             \* table "environments": row i is the host of id i
    VariableEnvironmentMap,  \* rows <<environment_id, variable_id>>
    LibraryEnvironmentMap,   \* rows <<environment_id, library_id>>
    pc,                      \* per process: position in the running call
    call,                    \* per process: the running (or last) call and its arguments
    library_map,             \* per process: result_map of reflect_libraries_bulk
    variable_map,            \* per process: result_map of reflect_variables_bulk
    current_try,             \* per process: db_retry attempt counter of the running bulk call
    result,                  \* per process: outcome of the last call
    prev,                    \* per process: outcome of the call before, when the call repeats it
    cache,                   \* per process: _env_cache._cache
    raced,                   \* per process: the running call lost an insert race
    inserted,                \* per process: leaf rows committed by the running call
    ncalls,                  \* number of API calls started so far
    retry,                   \* the db_retry wrapper run on its own (SpecRetry)
    hostname,                \* per process: socket.gethostname()
    entry,                   \* what the call started last found on entry (SpecSeq)
    ecache,                  \* an EnvironmentCache run on its own (SpecCache)
    statements,              \* per process: SQL statements issued by the bulk reflections of the running call
    dists,                   \* the generator of yield_distributions run on its own (SpecDist)
    tracker                  \* a DataProductTracker and its databases (SpecTracker)

vars == <<Variable, Library, Environment, VariableEnvironmentMap,
          LibraryEnvironmentMap, pc, call, library_map, variable_map,
          current_try, result, prev, cache, raced, inserted, ncalls, retry,
          hostname, entry, ecache, statements, dists, tracker>>

store == <<Variable, Library, Environment, VariableEnvironmentMap,
           LibraryEnvironmentMap>>

-----------------------------------------------------------------------------
(* Bounds and input domains *)

MaxLen == 2          \* longest variable list passed to a call
MaxCalls == 2        \* API calls started in one behaviour
MaxRetries == 5      \* largest max_retries given to db_retry in SpecRetry
MaxFailures == 5     \* largest number of leading failing attempts in SpecRetry

Procs == {1, 2}
VarPairs == {<<1, 1>>, <<1, 2>>}     \* (key, value) pairs
LibPairs == {<<1, 1>>}               \* (name, version) pairs
Hosts == {1, 2}                      \* values of socket.gethostname()

None == 0                            \* Python None; row ids start at 1

-----------------------------------------------------------------------------
(* Sequences *)

Range(s) == {s[i] : i \in DOMAIN s}

ListsOver(S, n) == UNION {[1..k -> S] : k \in 0..n}

\* The argument lists of the calls: variable lists with repeated pairs and
\* in every order, distribution lists empty or of one pair
VarLists == ListsOver(VarPairs, MaxLen)
LibLists == {<< >>} \cup {<<d>> : d \in LibPairs}

Count(s, x) == Cardinality({i \in DOMAIN s : s[i] = x})

IsPermutation(s, t) ==
    /\ Len(s) = Len(t)
    /\ \A x \in Range(s) \cup Range(t) : Count(s, x) = Count(t, x)

NoDuplicates(s) == \A i, j \in DOMAIN s : s[i] = s[j] => i = j

\* Python tuple comparison of two pairs
PairLess(a, b) == a[1] < b[1] \/ (a[1] = b[1] /\ a[2] < b[2])

RECURSIVE InsertSorted(_, _)
InsertSorted(x, s) ==
    IF s = << >> THEN <<x>>
    ELSE IF PairLess(Head(s), x) \/ Head(s) = x
         THEN <<Head(s)>> \o InsertSorted(x, Tail(s))
         ELSE <<x>> \o s

RECURSIVE sorted(_)
sorted(s) == IF s = << >> THEN << >> ELSE InsertSorted(Head(s), sorted(Tail(s)))

-----------------------------------------------------------------------------
(* Values of the variables outside the specification that uses them *)

\* The lookup of the call raised nothing
NoLookupError == [error |-> "none", slept |-> << >>, calls |-> 1]

\* No call has been started yet
NoEntry == [proc |-> None, Variable |-> << >>, Library |-> << >>,
            Environment |-> << >>, VariableEnvironmentMap |-> {},
            LibraryEnvironmentMap |-> {}, cached |-> None, candidates |-> {},
            last |-> [proc |-> None, environ |-> << >>, distributions |-> << >>,
                      status |-> "none", id |-> None],
            errors |-> 0, lookup |-> NoLookupError]

\* yield_distributions has not been called
NoDistributions == [metadata |-> << >>, index |-> 0, mask |-> {}, yielded |-> << >>]

\* No call of a DataProductTracker method has been made
NoTrackerCall ==
    [op |-> "none", target_file |-> << >>, parents |-> << >>,
     variable_hints |-> << >>, variables |-> {},
     status |-> "none", value |-> None, exception |-> "none", products |-> 0]

\* What is remembered of the call before the last
NoCallBefore ==
    [op |-> "none", target_file |-> << >>, variables |-> {},
     status |-> "none", value |-> None]

\* Base.metadata.create_all: the tables of a database without rows
EmptyDatabase ==
    [Environment |-> << >>, Invocation |-> << >>, DataProduct |-> << >>,
     DataProductHierarchy |-> {}]

\* DataProductTracker.__init__ with contracts switched on or off, the
\* session of database 1 assigned and the databases as given: env_id = None
\* and the three caches empty.  _env_cache is the entry of the module-level
\* EnvironmentCache for the environment of the process; last is the call
\* made last and before the call made before it.
NewTracker(contracts, databases) ==
    [_db |-> 1, env_id |-> None, _product_map |-> << >>,
     _invocation_cache |-> << >>, _variable_cache |-> << >>,
     _env_cache |-> None, contracts |-> contracts, db |-> databases,
     last |-> NoTrackerCall, before |-> NoCallBefore]

\* No DataProductTracker is in use
NoTracker == NewTracker(TRUE, [d \in {1, 2} |-> EmptyDatabase])

\* EnvironmentCache.__init__: no entry, no timestamp; the clock at 0 and no
\* get or set made yet
NewEnvironmentCache ==
    [_cache |-> << >>, _timestamps |-> << >>, now |-> 0,
     op |-> "none", key |-> << >>, value |-> None, stored |-> << >>]

-----------------------------------------------------------------------------
(* db_retry *)

DefaultMaxRetries == 2
DefaultBackoffFactor == 2
InitialWait == 1                     \* current_wait = 0.5, in half seconds

\* Classes of the exceptions the wrapped function raises
ExceptionClasses == {"IntegrityError", "OperationalError", "ValueError"}

\* sqlalchemy.exc.IntegrityError (a uniqueness race) and OperationalError
\* (store unreachable or misconfigured) derive from exc.DatabaseError
SubclassesOfDatabaseError == {"IntegrityError", "OperationalError"}

\* except Exception
CaughtAll == ExceptionClasses

\* except exc.DatabaseError as e
Caught == SubclassesOfDatabaseError

\* while current_try <= max_retries
WrapperLoops(try, max_retries) == try <= max_retries

\* if current_try >= max_retries: raise RuntimeError from e
WrapperRaises(try, max_retries) == try >= max_retries

\* An except branch that sleeps and counts the attempt but never grows the
\* wait
AfterDatabaseErrorSameWait(r) ==
    LET try == r.current_try + 1 IN
    [r EXCEPT !.slept = Append(@, r.current_wait),
              !.current_try = try,
              !.outcome = IF WrapperRaises(try, r.max_retries)
                          THEN "raised" ELSE "running",
              !.exception = IF WrapperRaises(try, r.max_retries)
                            THEN "RuntimeError" ELSE "none",
              !.cause = IF WrapperRaises(try, r.max_retries)
                        THEN r.calls ELSE None]

\* The except branch: sleep, grow the wait, count the attempt
AfterDatabaseError(r) ==
    LET try == r.current_try + 1 IN
    [r EXCEPT !.slept = Append(@, r.current_wait),
              !.current_wait = r.current_wait * r.backoff_factor,
              !.current_try = try,
              !.outcome = IF WrapperRaises(try, r.max_retries)
                          THEN "raised" ELSE "running",
              !.exception = IF WrapperRaises(try, r.max_retries)
                            THEN "RuntimeError" ELSE "none",
              !.cause = IF WrapperRaises(try, r.max_retries)
                        THEN r.calls ELSE None]

RetryIdle == [max_retries |-> 0, backoff_factor |-> 0, failures |-> 0,
              error |-> "none",
              current_try |-> 0, current_wait |-> 0, calls |-> 0,
              slept |-> << >>, outcome |-> "idle", value |-> None,
              cause |-> None, exception |-> "none"]

\* wrapper(*args, **kwargs) entered: the wrapped function raises an
\* exception of class x on its first `failures` invocations and returns the
\* number of the invocation afterwards.
RetryStart(m, b, f, x) ==
    [max_retries |-> m, backoff_factor |-> b, failures |-> f, error |-> x,
     current_try |-> 1, current_wait |-> InitialWait, calls |-> 0,
     slept |-> << >>, outcome |-> "running", value |-> None, cause |-> None,
     exception |-> "none"]

InitRetry ==
    /\ Variable = << >> /\ Library = << >> /\ Environment = << >>
    /\ VariableEnvironmentMap = {} /\ LibraryEnvironmentMap = {}
    /\ pc = [p \in Procs |-> "idle"]
    /\ call = [p \in Procs |-> [op |-> "none", environ |-> << >>, distributions |-> << >>]]
    /\ library_map = [p \in Procs |-> << >>]
    /\ variable_map = [p \in Procs |-> << >>]
    /\ current_try = [p \in Procs |-> 0]
    /\ result = [p \in Procs |-> [status |-> "none", id |-> None, created |-> FALSE,
                                  ids |-> << >>, exception |-> "none"]]
    /\ prev = [p \in Procs |-> [rel |-> "none", id |-> None, ids |-> << >>]]
    /\ cache = [p \in Procs |-> {}]
    /\ raced = [p \in Procs |-> FALSE]
    /\ inserted = [p \in Procs |-> 0]
    /\ ncalls = 0
    /\ hostname = [p \in Procs |-> 1]
    /\ entry = NoEntry
    /\ ecache = NewEnvironmentCache
    /\ statements = [p \in Procs |-> 0]
    /\ dists = NoDistributions
    /\ tracker = NoTracker
    /\ \E m \in 0..MaxRetries, b \in 1..3, f \in 0..MaxFailures,
          x \in ExceptionClasses :
          retry = RetryStart(m, b, f, x)

mainVars == <<Variable, Library, Environment, VariableEnvironmentMap,
              LibraryEnvironmentMap, pc, call, library_map, variable_map,
              current_try, result, prev, cache, raced, inserted, ncalls,
              hostname, entry, ecache, statements, dists, tracker>>

\* try: return func(*args, **kwargs)   -- the invocation returns
WrappedReturns ==
    /\ retry.outcome = "running"
    /\ WrapperLoops(retry.current_try, retry.max_retries)
    /\ retry.calls >= retry.failures
    /\ retry' = [retry EXCEPT !.calls = @ + 1, !.outcome = "returned",
                              !.value = retry.calls + 1]
    /\ UNCHANGED mainVars

\* except exc.DatabaseError as e   -- the invocation raises
WrappedFails ==
    /\ retry.outcome = "running"
    /\ WrapperLoops(retry.current_try, retry.max_retries)
    /\ retry.calls < retry.failures
    /\ retry.error \in Caught
    /\ retry' = AfterDatabaseError([retry EXCEPT !.calls = @ + 1])
    /\ UNCHANGED mainVars

\* the invocation raises an exception that no except clause matches: it
\* leaves the wrapper
WrappedPropagates ==
    /\ retry.outcome = "running"
    /\ WrapperLoops(retry.current_try, retry.max_retries)
    /\ retry.calls < retry.failures
    /\ retry.error \notin Caught
    /\ retry' = [retry EXCEPT !.calls = @ + 1, !.outcome = "propagated",
                              !.exception = retry.error]
    /\ UNCHANGED mainVars

\* the while condition is false: the wrapper falls off its end
WrapperFallsThrough ==
    /\ retry.outcome = "running"
    /\ ~WrapperLoops(retry.current_try, retry.max_retries)
    /\ retry' = [retry EXCEPT !.outcome = "fell_through", !.value = None]
    /\ UNCHANGED mainVars

NextRetry ==
    WrappedReturns \/ WrappedFails \/ WrappedPropagates \/ WrapperFallsThrough

SpecRetry == InitRetry /\ [][NextRetry]_vars

-----------------------------------------------------------------------------
(* EnvironmentCache *)

\* get_key without the two sorted() calls
get_key_unsorted(os_variables, distributions, host) ==
    <<os_variables, distributions, host>>

\* EnvironmentCache.get_key
get_key(os_variables, distributions, host) ==
    <<sorted(os_variables), sorted(distributions), host>>

\* EnvironmentCache.get (entries younger than ttl)
CacheGet(c, key) ==
    IF \E e \in c : e[1] = key
    THEN (CHOOSE e \in c : e[1] = key)[2]
    ELSE None

\* EnvironmentCache.set
CacheSet(c, key, value) == {e \in c : e[1] # key} \cup {<<key, value>>}

\* _env_cache._cache.pop(cache_key, None)
CachePop(c, key) == {e \in c : e[1] # key}

-----------------------------------------------------------------------------
(* EnvironmentCache with its clock, run on its own *)

MaxTime == 5         \* the clock stops here
ttl == 3             \* ttl_seconds = 300, the clock counts steps of 100 s

CacheKeys == {get_key(<<v>>, << >>, 1) : v \in VarPairs}
CacheIds == {1, 2}

\* del d[k]
Without(d, k) == [x \in DOMAIN d \ {k} |-> d[x]]

\* d[k] = v
With(d, k, v) == [x \in DOMAIN d \cup {k} |-> IF x = k THEN v ELSE d[x]]

\* A get that restarts the lifetime of the entry it returns
EnvironmentCacheGetSliding(c, key) ==
    IF key \in DOMAIN c._cache
    THEN IF c.now - c._timestamps[key] < ttl
         THEN [c EXCEPT !._timestamps = With(@, key, c.now),
                        !.op = "get", !.key = key, !.value = c._cache[key]]
         ELSE [c EXCEPT !._cache = Without(@, key),
                        !._timestamps = Without(@, key),
                        !.op = "get", !.key = key, !.value = None]
    ELSE [c EXCEPT !.op = "get", !.key = key, !.value = None]

\* EnvironmentCache.get(key) when time.time() is c.now; value is what it
\* returns
EnvironmentCacheGet(c, key) ==
    IF key \in DOMAIN c._cache
    THEN IF c.now - c._timestamps[key] < ttl
         THEN [c EXCEPT !.op = "get", !.key = key, !.value = c._cache[key]]
         ELSE [c EXCEPT !._cache = Without(@, key),
                        !._timestamps = Without(@, key),
                        !.op = "get", !.key = key, !.value = None]
    ELSE [c EXCEPT !.op = "get", !.key = key, !.value = None]

\* EnvironmentCache.set(key, value) when time.time() is c.now
EnvironmentCacheSet(c, key, value) ==
    [c EXCEPT !._cache = With(@, key, value),
              !._timestamps = With(@, key, c.now),
              !.op = "set", !.key = key, !.value = value]

cacheFrame == <<Variable, Library, Environment, VariableEnvironmentMap,
                LibraryEnvironmentMap, pc, call, library_map, variable_map,
                current_try, result, prev, cache, raced, inserted, ncalls,
                retry, hostname, entry, statements, dists, tracker>>

\* time.time() grows
Tick ==
    /\ ecache.now < MaxTime
    /\ ecache' = [ecache EXCEPT !.now = @ + 1, !.op = "tick"]
    /\ UNCHANGED cacheFrame

GetCall ==
    /\ \E key \in CacheKeys : ecache' = EnvironmentCacheGet(ecache, key)
    /\ UNCHANGED cacheFrame

\* stored remembers the value and the time of the last set of every key
SetCall ==
    /\ \E key \in CacheKeys, value \in CacheIds :
          ecache' = [EnvironmentCacheSet(ecache, key, value) EXCEPT
                        !.stored = With(@, key, <<value, ecache.now>>)]
    /\ UNCHANGED cacheFrame

-----------------------------------------------------------------------------
(* Leaf reflection: reflect_variables_bulk / reflect_libraries_bulk *)

Values(f) == {f[x] : x \in DOMAIN f}

\* existing_q: SELECT id, key, value WHERE (key = .. AND value = ..) OR ...
\* folded into result_map[(key, value)] = id
ExistingRows(table, records) ==
    [kv \in Range(table) \cap Range(records) |->
        CHOOSE i \in DOMAIN table :
            table[i] = kv /\ \A j \in DOMAIN table : table[j] = kv => j <= i]

\* to_create without the filter on existing_keys
ToCreateAll(result_map, records) == records

\* to_create = [r for r in records if r not in existing_keys]
ToCreate(result_map, records) ==
    SelectSeq(records, LAMBDA r : r \notin DOMAIN result_map)

\* A table declared without its UniqueConstraint
NoUniqueConstraint(table, to_create) == FALSE

\* UniqueConstraint("key", "value") / UniqueConstraint("name", "version"):
\* the insert of to_create raises IntegrityError
ViolatesUnique(table, to_create) ==
    \E i \in DOMAIN to_create :
        \/ to_create[i] \in Range(table)
        \/ \E j \in 1..(i - 1) : to_create[j] = to_create[i]

\* A session that commits every statement as it runs
SessionAutocommits(committed, working) == working

\* `with db:` left by an exception: the session is closed and the
\* transaction, which nothing committed, is rolled back
SessionExitOnError(committed, working) == committed

\* The table as the session sees it when the insert of to_create raises:
\* the batched INSERT ... RETURNING fails as a whole; the one-by-one path
\* (db.add, db.flush per row) has flushed the rows before the first one that
\* breaks the constraint
InsertedBeforeError(table, to_create, returning) ==
    LET failing == {i \in DOMAIN to_create :
                       \/ to_create[i] \in Range(table)
                       \/ \E j \in 1..(i - 1) : to_create[j] = to_create[i]}
        first == CHOOSE i \in failing : \A j \in failing : i <= j
    IN IF returning THEN table
       ELSE table \o SubSeq(to_create, 1, first - 1)

\* result_map after an insert that gives every new pair the id of the last
\* inserted row
InsertedRowsLastId(table, result_map, to_create) ==
    [kv \in DOMAIN result_map \cup Range(to_create) |->
        IF kv \in DOMAIN result_map THEN result_map[kv]
        ELSE Len(table) + Len(to_create)]

\* result_map after the insert: new rows take the next ids in order
InsertedRows(table, result_map, to_create) ==
    [kv \in DOMAIN result_map \cup Range(to_create) |->
        IF kv \in DOMAIN result_map THEN result_map[kv]
        ELSE Len(table) + (CHOOSE i \in DOMAIN to_create : to_create[i] = kv)]

-----------------------------------------------------------------------------
(* Set matching: get_matching_environment_single_query *)

\* var_cte: join VariableEnvironmentMap with Variable, keep the rows whose
\* (key, value) is IN the list, group by environment_id,
\* HAVING count() == len(os_variables)
matching_var_envs(os_variables) ==
    {eid \in {r[1] : r \in VariableEnvironmentMap} :
        Cardinality({r \in VariableEnvironmentMap :
                        /\ r[1] = eid
                        /\ r[2] \in DOMAIN Variable
                        /\ Variable[r[2]] \in Range(os_variables)})
            = Len(os_variables)}

\* lib_cte, the same over LibraryEnvironmentMap and Library
matching_lib_envs(distributions) ==
    {eid \in {r[1] : r \in LibraryEnvironmentMap} :
        Cardinality({r \in LibraryEnvironmentMap :
                        /\ r[1] = eid
                        /\ r[2] \in DOMAIN Library
                        /\ Library[r[2]] \in Range(distributions)})
            = Len(distributions)}

\* The main query without its WHERE Environment.host == hostname
MatchingEnvironmentsAnyHost(os_variables, distributions, host) ==
    {eid \in DOMAIN Environment :
        /\ os_variables # << >> => eid \in matching_var_envs(os_variables)
        /\ distributions # << >> => eid \in matching_lib_envs(distributions)}

\* The rows the main query selects from before LIMIT 1
MatchingEnvironments(os_variables, distributions, host) ==
    {eid \in DOMAIN Environment :
        /\ Environment[eid] = host
        /\ os_variables # << >> => eid \in matching_var_envs(os_variables)
        /\ distributions # << >> => eid \in matching_lib_envs(distributions)}

\* Environment.variables / Environment.libraries as (key, value) sets
EnvVariables(eid) == {Variable[r[2]] : r \in {x \in VariableEnvironmentMap : x[1] = eid}}
EnvLibraries(eid) == {Library[r[2]] : r \in {x \in LibraryEnvironmentMap : x[1] = eid}}
EnvVariableIds(eid) == {r[2] : r \in {x \in VariableEnvironmentMap : x[1] = eid}}
EnvLibraryIds(eid) == {r[2] : r \in {x \in LibraryEnvironmentMap : x[1] = eid}}

-----------------------------------------------------------------------------
(* The calls of one process *)

NoCall == [op |-> "none", environ |-> << >>, distributions |-> << >>]
NoResult == [status |-> "none", id |-> None, created |-> FALSE, ids |-> << >>,
             exception |-> "none"]
NoPrev == [rel |-> "none", id |-> None, ids |-> << >>]
\* The call ends with an exception of class x
RaisedWith(x) ==
    [status |-> "raised", id |-> None, created |-> FALSE, ids |-> << >>,
     exception |-> x]

\* raise RuntimeError from e, in the db_retry wrapper
Raised == RaisedWith("RuntimeError")

\* A return value whose created flag is always False
ReturnedNotCreated(id, created, ids) ==
    [status |-> "returned", id |-> id, created |-> FALSE, ids |-> ids,
     exception |-> "none"]

Returned(id, created, ids) ==
    [status |-> "returned", id |-> id, created |-> created, ids |-> ids,
     exception |-> "none"]

\* What the call about to start repeats of the call that just returned
Repeats(p, op, V, L) ==
    IF /\ result[p].status = "returned"
       /\ call[p].op = op
       /\ IsPermutation(call[p].environ, V)
       /\ IsPermutation(call[p].distributions, L)
    THEN [rel |-> IF call[p].environ = V /\ call[p].distributions = L
                  THEN "same" ELSE "permuted",
          id |-> result[p].id, ids |-> result[p].ids]
    ELSE NoPrev

\* The locals of the call of p after a step
Locals(p, next_pc, lib_map, var_map, try) ==
    /\ pc' = [pc EXCEPT ![p] = next_pc]
    /\ library_map' = [library_map EXCEPT ![p] = lib_map]
    /\ variable_map' = [variable_map EXCEPT ![p] = var_map]
    /\ current_try' = [current_try EXCEPT ![p] = try]

\* The call of p ends with result r; its locals go out of scope
Finish(p, r) ==
    /\ result' = [result EXCEPT ![p] = r]
    /\ Locals(p, "idle", << >>, << >>, 0)

\* The call of p goes on at next_pc
Continue(p, next_pc, lib_map, var_map, try) ==
    /\ result' = [result EXCEPT ![p] = NoResult]
    /\ Locals(p, next_pc, lib_map, var_map, try)

StartCall(p, op, V, L) ==
    /\ pc[p] = "idle"
    /\ ncalls' = ncalls + 1
    /\ call' = [call EXCEPT ![p] = [op |-> op, environ |-> V, distributions |-> L]]
    /\ prev' = [prev EXCEPT ![p] = Repeats(p, op, V, L)]
    /\ raced' = [raced EXCEPT ![p] = FALSE]
    /\ inserted' = [inserted EXCEPT ![p] = 0]
    /\ statements' = [statements EXCEPT ![p] = 0]
    /\ UNCHANGED <<store, retry>>

\* reflect_variables(db, os_variables) is entered, or
\* reflect_variables_bulk(db, os_variables) is called itself; db_retry
\* starts reflect_variables_bulk with current_try = 1
ReflectVariables(p) ==
    \E V \in VarLists, op \in {"reflect_variables", "reflect_variables_bulk"} :
        /\ StartCall(p, op, V, << >>)
        /\ Continue(p, "variables_select", << >>, << >>, 1)
        /\ UNCHANGED cache

\* reflect_libraries(db, distributions) is entered, or
\* reflect_libraries_bulk(db, distributions) is called itself; db_retry
\* starts reflect_libraries_bulk with current_try = 1
ReflectLibraries(p) ==
    \E L \in LibLists, op \in {"reflect_libraries", "reflect_libraries_bulk"} :
        /\ StartCall(p, op, << >>, L)
        /\ Continue(p, "libraries_select", << >>, << >>, 1)
        /\ UNCHANGED cache

\* A lookup that remembers a miss: the key is cached with None
LookupCachesMiss(c, os_variables, distributions, host) ==
    LET cache_key == get_key(os_variables, distributions, host)
        cached_env_id == CacheGet(c, cache_key)
        candidates == MatchingEnvironments(os_variables, distributions, host)
    IN IF \E e \in c : e[1] = cache_key /\ e[2] = None
       THEN {<<None, c>>}
       ELSE IF cached_env_id # None /\ cached_env_id \in DOMAIN Environment
       THEN {<<cached_env_id, c>>}
       ELSE IF candidates # {}
            THEN {<<env_id, CacheSet(c, cache_key, env_id)>> : env_id \in candidates}
            ELSE {<<None, CacheSet(c, cache_key, None)>>}

\* A lookup whose query never selects a row
LookupAlwaysMisses(c, os_variables, distributions, host) ==
    {<<None, CachePop(c, get_key(os_variables, distributions, host))>>}

\* A lookup that returns a cached id without the exists query
LookupTrustsCache(c, os_variables, distributions, host) ==
    LET cache_key == get_key(os_variables, distributions, host)
        cached_env_id == CacheGet(c, cache_key)
        candidates == MatchingEnvironments(os_variables, distributions, host)
    IN IF cached_env_id # None
       THEN {<<cached_env_id, c>>}
       ELSE IF candidates # {}
            THEN {<<env_id, CacheSet(c, cache_key, env_id)>> : env_id \in candidates}
            ELSE {<<None, CachePop(c, cache_key)>>}

\* get_matching_environment_single_query with the cache c of the caller:
\* the cache probe with the existence check of the cached id, then the CTE
\* query with LIMIT 1 (no ORDER BY: any matching row).  The set of possible
\* <<env_id or None, cache after>>.
LookupOutcomes(c, os_variables, distributions, host) ==
    LET cache_key == get_key(os_variables, distributions, host)
        cached_env_id == CacheGet(c, cache_key)
        candidates == MatchingEnvironments(os_variables, distributions, host)
    IN IF cached_env_id # None /\ cached_env_id \in DOMAIN Environment
       THEN {<<cached_env_id, c>>}
       ELSE IF candidates # {}
            THEN {<<env_id, CacheSet(c, cache_key, env_id)>> : env_id \in candidates}
            ELSE {<<None, CachePop(c, cache_key)>>}

\* get_environment called outside the try block: its ModelDoesNotExist
\* leaves get_or_create_env
ModelDoesNotExistEscapes(p) == Finish(p, RaisedWith("ModelDoesNotExist"))

\* get_environment raises ModelDoesNotExist(e.Environment) inside the try
\* block of get_or_create_env; except ModelDoesNotExist: the create path
\* starts with reflect_libraries_bulk
ExceptModelDoesNotExist(p) == Continue(p, "libraries_select", << >>, << >>, 1)

\* get_or_create_env(db, environ, distributions) up to the end of
\* get_environment: a hit returns (env_id, False), None raises
\* ModelDoesNotExist and starts the create path
GetOrCreateEnv(p) ==
    \E V \in VarLists, L \in LibLists :
        /\ StartCall(p, "get_or_create_env", V, L)
        /\ \E o \in LookupOutcomes(cache[p], V, L, hostname[p]) :
              /\ cache' = [cache EXCEPT ![p] = o[2]]
              /\ IF o[1] # None
                 THEN Finish(p, Returned(o[1], FALSE, << >>))
                 ELSE ExceptModelDoesNotExist(p)

\* reflect_libraries_bulk returned bulk_result: to the caller outside (the
\* map is the result), to reflect_libraries, which returns the id set, or
\* to get_or_create_env, which goes on to reflect_variables_bulk
AfterLibraries(p, bulk_result) ==
    IF call[p].op = "reflect_libraries_bulk"
    THEN Finish(p, Returned(None, FALSE, bulk_result))
    ELSE IF call[p].op = "reflect_libraries"
    THEN Finish(p, Returned(None, FALSE,
                {bulk_result[d] : d \in Range(call[p].distributions)}))
    ELSE Continue(p, "variables_select", bulk_result, << >>, 1)

\* reflect_variables_bulk returned bulk_result: to the caller outside (the
\* map is the result), to reflect_variables, which returns the id list, or
\* to get_or_create_env, which goes on to the insert of the environment
AfterVariables(p, bulk_result) ==
    IF call[p].op = "reflect_variables_bulk"
    THEN Finish(p, Returned(None, FALSE, bulk_result))
    ELSE IF call[p].op = "reflect_variables"
    THEN Finish(p, Returned(None, FALSE,
                [i \in DOMAIN call[p].environ |-> bulk_result[call[p].environ[i]]]))
    ELSE Continue(p, "create_environment", library_map[p], bulk_result, 0)

\* A wrapper that invokes the bulk reflection again after every error
BulkInsertRetriesForever(p, select_pc) ==
    Continue(p, select_pc, library_map[p], << >>, current_try[p] + 1)

\* except exc.DatabaseError in the db_retry() wrapper of a bulk reflection:
\* the session context has rolled the attempt back
BulkInsertFails(p, select_pc) ==
    LET try == current_try[p] + 1 IN
    IF WrapperRaises(try, DefaultMaxRetries)
    THEN Finish(p, Raised)
    ELSE IF WrapperLoops(try, DefaultMaxRetries)
         THEN Continue(p, select_pc, library_map[p], << >>, try)
         ELSE Finish(p, Returned(None, FALSE, << >>))

\* The insert lost a race: a pair read as missing is stored by now
LostRace(table, to_create) == \E i \in DOMAIN to_create : to_create[i] \in Range(table)

\* raced and inserted observe the calls of reflect_variables and
\* reflect_libraries
Observe(p, lost, rows) ==
    IF call[p].op = "get_or_create_env"
    THEN UNCHANGED <<raced, inserted>>
    ELSE /\ raced' = [raced EXCEPT ![p] = @ \/ lost]
         /\ inserted' = [inserted EXCEPT ![p] = @ + rows]

\* A bulk reflection without its early return
NeverReturnsEarly(records_list) == FALSE

\* if not variables_list: return {}   (if not distributions_list: return {})
ReturnsEarly(records_list) == records_list = << >>

\* The bulk reflection of p executes one more SQL statement
Executes(p) == statements' = [statements EXCEPT ![p] = @ + 1]

\* reflect_libraries_bulk up to the insert: the early return for an empty
\* input, otherwise the SELECT of the existing rows; commits when nothing is
\* missing
LibrariesSelect(p) ==
    /\ pc[p] = "libraries_select"
    /\ LET distributions_list == call[p].distributions
           result_map == ExistingRows(Library, distributions_list)
       IN IF ReturnsEarly(distributions_list)
          THEN AfterLibraries(p, << >>) /\ UNCHANGED statements
          ELSE /\ Executes(p)
               /\ IF ToCreate(result_map, distributions_list) = << >>
                  THEN AfterLibraries(p, result_map)
                  ELSE Continue(p, "libraries_insert", result_map, << >>, current_try[p])
    /\ UNCHANGED <<store, call, prev, cache, raced, inserted, ncalls, retry>>

\* reflect_libraries_bulk: insert of to_create and commit, as one transaction
LibrariesInsert(p) ==
    /\ pc[p] = "libraries_insert"
    /\ Executes(p)
    /\ LET to_create == ToCreate(library_map[p], call[p].distributions)
       IN IF ViolatesUnique(Library, to_create)
          THEN /\ BulkInsertFails(p, "libraries_select")
               /\ Observe(p, LostRace(Library, to_create), 0)
               /\ \E returning \in BOOLEAN :
                     Library' = SessionExitOnError(Library,
                         InsertedBeforeError(Library, to_create, returning))
          ELSE /\ Library' = Library \o to_create
               /\ Observe(p, FALSE, Len(to_create))
               /\ AfterLibraries(p, InsertedRows(Library, library_map[p], to_create))
    /\ UNCHANGED <<Variable, Environment, VariableEnvironmentMap,
                   LibraryEnvironmentMap, call, prev, cache, ncalls, retry>>

\* reflect_variables_bulk up to the insert: the early return for an empty
\* input, otherwise the SELECT of the existing rows
VariablesSelect(p) ==
    /\ pc[p] = "variables_select"
    /\ LET variables_list == call[p].environ
           result_map == ExistingRows(Variable, variables_list)
       IN IF ReturnsEarly(variables_list)
          THEN AfterVariables(p, << >>) /\ UNCHANGED statements
          ELSE /\ Executes(p)
               /\ IF ToCreate(result_map, variables_list) = << >>
                  THEN AfterVariables(p, result_map)
                  ELSE Continue(p, "variables_insert", library_map[p], result_map, current_try[p])
    /\ UNCHANGED <<store, call, prev, cache, raced, inserted, ncalls, retry>>

\* reflect_variables_bulk: insert of to_create and commit, as one transaction
VariablesInsert(p) ==
    /\ pc[p] = "variables_insert"
    /\ Executes(p)
    /\ LET to_create == ToCreate(variable_map[p], call[p].environ)
       IN IF ViolatesUnique(Variable, to_create)
          THEN /\ BulkInsertFails(p, "variables_select")
               /\ Observe(p, LostRace(Variable, to_create), 0)
               /\ \E returning \in BOOLEAN :
                     Variable' = SessionExitOnError(Variable,
                         InsertedBeforeError(Variable, to_create, returning))
          ELSE /\ Variable' = Variable \o to_create
               /\ Observe(p, FALSE, Len(to_create))
               /\ AfterVariables(p, InsertedRows(Variable, variable_map[p], to_create))
    /\ UNCHANGED <<Library, Environment, VariableEnvironmentMap,
                   LibraryEnvironmentMap, call, prev, cache, ncalls, retry>>

\* An insert that overwrites the table with its rows
ReplaceRows(table, rows) == rows

\* db.bulk_insert_mappings(Model, mappings): the rows are added to the table
BulkInsertMappings(table, rows) == table \cup rows

\* get_or_create_env, the create path: one transaction inserting the
\* Environment row and one association row per value of the two maps, then
\* the cache entry
CreateEnvironment(p) ==
    /\ pc[p] = "create_environment"
    /\ LET env_id == Len(Environment) + 1
           cache_key == get_key(call[p].environ, call[p].distributions, hostname[p])
       IN /\ Environment' = Append(Environment, hostname[p])
          /\ LibraryEnvironmentMap' = BulkInsertMappings(LibraryEnvironmentMap,
                {<<env_id, lib_id>> : lib_id \in Values(library_map[p])})
          /\ VariableEnvironmentMap' = BulkInsertMappings(VariableEnvironmentMap,
                {<<env_id, var_id>> : var_id \in Values(variable_map[p])})
          /\ cache' = [cache EXCEPT ![p] = CacheSet(@, cache_key, env_id)]
          /\ Finish(p, Returned(env_id, TRUE, << >>))
    /\ UNCHANGED <<Variable, Library, call, prev, raced, inserted, ncalls, retry,
                   statements>>

\* An empty store and processes that have not called yet
InitProcs ==
    /\ Variable = << >> /\ Library = << >> /\ Environment = << >>
    /\ VariableEnvironmentMap = {} /\ LibraryEnvironmentMap = {}
    /\ pc = [p \in Procs |-> "idle"]
    /\ call = [p \in Procs |-> NoCall]
    /\ library_map = [p \in Procs |-> << >>]
    /\ variable_map = [p \in Procs |-> << >>]
    /\ current_try = [p \in Procs |-> 0]
    /\ result = [p \in Procs |-> NoResult]
    /\ prev = [p \in Procs |-> NoPrev]
    /\ cache = [p \in Procs |-> {}]
    /\ raced = [p \in Procs |-> FALSE]
    /\ inserted = [p \in Procs |-> 0]
    /\ ncalls = 0
    /\ retry = RetryIdle
    /\ entry = NoEntry
    /\ ecache = NewEnvironmentCache
    /\ statements = [p \in Procs |-> 0]

\* yield_distributions is not running and no tracker is in use
InitOthers == dists = NoDistributions /\ tracker = NoTracker

\* All processes run on one host
Init == InitProcs /\ InitOthers /\ hostname = [p \in Procs |-> 1]

\* The variables of the other specifications
seqVars == <<hostname, entry, ecache>>
otherVars == <<dists, tracker>>

Next ==
    /\ \E p \in Procs :
          \/ ncalls < MaxCalls /\ GetOrCreateEnv(p)
          \/ LibrariesSelect(p)
          \/ LibrariesInsert(p)
          \/ VariablesSelect(p)
          \/ VariablesInsert(p)
          \/ CreateEnvironment(p)
    /\ UNCHANGED <<seqVars, otherVars>>

Spec == Init /\ [][Next]_vars

\* Leaf reflection called on its own
NextLeaf ==
    /\ \E p \in Procs :
          \/ ncalls < MaxCalls /\ ReflectVariables(p)
          \/ ncalls < MaxCalls /\ ReflectLibraries(p)
          \/ LibrariesSelect(p)
          \/ LibrariesInsert(p)
          \/ VariablesSelect(p)
          \/ VariablesInsert(p)
    /\ UNCHANGED <<seqVars, otherVars>>

SpecLeaf == Init /\ [][NextLeaf]_vars

\* An EnvironmentCache called on its own while time passes
NextCache == Tick \/ GetCall \/ SetCall

SpecCache == Init /\ [][NextCache]_vars

-----------------------------------------------------------------------------
(* yield_distributions, run on its own *)

MaxDists == 3        \* longest list metadata.distributions() returns

\* The installed distributions importlib.metadata can report: name, version
\* and the directory on sys.path that holds the metadata
DistNames == {1, 2}
DistVersions == {1, 2}
DistLocations == {1, 2}
InstalledDistributions == DistNames \X DistVersions \X DistLocations

\* converted = Distribution(name=dist.metadata["Name"], version=dist.version)
Distribution(dist) == <<dist[1], dist[2]>>

\* yield_distributions() is called: mask = set(), the for loop is at the
\* first element of metadata.distributions()
InitDist ==
    /\ InitProcs
    /\ hostname = [p \in Procs |-> 1]
    /\ tracker = NoTracker
    /\ \E m \in ListsOver(InstalledDistributions, MaxDists) :
          dists = [metadata |-> m, index |-> 0, mask |-> {}, yielded |-> << >>]

distFrame == <<Variable, Library, Environment, VariableEnvironmentMap,
               LibraryEnvironmentMap, pc, call, library_map, variable_map,
               current_try, result, prev, cache, raced, inserted, ncalls,
               retry, hostname, entry, ecache, statements, tracker>>

\* if converted in mask: continue
SkipDistribution ==
    /\ dists.index < Len(dists.metadata)
    /\ LET converted == Distribution(dists.metadata[dists.index + 1])
       IN /\ converted \in dists.mask
          /\ dists' = [dists EXCEPT !.index = @ + 1]
    /\ UNCHANGED distFrame

\* yield converted; mask.add(converted)
YieldDistribution ==
    /\ dists.index < Len(dists.metadata)
    /\ LET converted == Distribution(dists.metadata[dists.index + 1])
       IN /\ converted \notin dists.mask
          /\ dists' = [dists EXCEPT !.index = @ + 1,
                                    !.yielded = Append(@, converted),
                                    !.mask = @ \cup {converted}]
    /\ UNCHANGED distFrame

NextDist == SkipDistribution \/ YieldDistribution

SpecDist == InitDist /\ [][NextDist]_vars

-----------------------------------------------------------------------------
(* DataProductTracker (io/trackers.py), one tracker in one thread *)

MaxTrackerCalls == 2 \* tracker methods called in one behaviour of SpecTracker

Databases == {1, 2}
Stacks == {1, 2}                  \* keys of the call stacks track is called from
VariableIds == {1, 2}             \* id(variable) of the hinted objects

\* Paths as they are passed in: relative to the working directory or
\* starting with "~"
InputPaths == {<<".", 1>>, <<"~", 1>>, <<".", 2>>}

\* pathlib.Path.expanduser(): a leading "~" becomes the home directory
expanduser(path) == IF path[1] = "~" THEN <<"/home", path[2]>> ELSE path

\* pathlib.Path.resolve(): a relative path is made absolute below the
\* working directory, "~" being an ordinary directory name; an absolute
\* path stays as it is
resolve(path) ==
    IF path[1] = "." THEN <<"/cwd", path[2]>>
    ELSE IF path[1] = "~" THEN <<"/cwd/~", path[2]>>
    ELSE path

\* self._db: the tables of the assigned database
Db(t) == t.db[t._db]

\* The result of a method body: the tracker after it and the value returned
Returns(t, value) == [t |-> t, ok |-> TRUE, value |-> value, exception |-> "none"]

\* The method is left by an exception that o carries
Propagates(o) == [o EXCEPT !.value = None]

\* contracts._pk_in_database for the three models
environment_exists(o) == o.value \in DOMAIN Db(o.t).Environment
dataproduct_exists(o) == o.value \in DOMAIN Db(o.t).DataProduct
invocation_exists(o) == o.value \in DOMAIN Db(o.t).Invocation

\* The contract a decorator names, evaluated on the result o of the body
Contract(contract, o) ==
    CASE contract = "environment_exists" -> environment_exists(o)
      [] contract = "dataproduct_exists" -> dataproduct_exists(o)
      [] contract = "invocation_exists"  -> invocation_exists(o)

\* @deal.ensure(contract): the contract is evaluated on the result of the
\* body and PostContractError raised when it is false, unless contracts are
\* switched off (python -O, deal.disable())
Ensure(outcomes, contract) ==
    {IF o.ok /\ o.t.contracts /\ ~Contract(contract, o)
     THEN [o EXCEPT !.ok = FALSE, !.exception = "PostContractError"]
     ELSE o : o \in outcomes}

\* get_or_create_env(self._db) for the environment of the process (environ
\* and distributions None): the cached id when a row with that id exists,
\* else a row the query selects ("own": host and sets match), else a new row
TrackerGetOrCreateEnv(t) ==
    LET E == Db(t).Environment
        candidates == {i \in DOMAIN E : E[i] = "own"}
    IN IF t._env_cache # None /\ t._env_cache \in DOMAIN E
       THEN {Returns(t, t._env_cache)}
       ELSE IF candidates # {}
            THEN {Returns([t EXCEPT !._env_cache = i], i) : i \in candidates}
            ELSE {Returns([t EXCEPT !.db[t._db].Environment = Append(@, "own"),
                                    !._env_cache = Len(E) + 1], Len(E) + 1)}

\* DataProductTracker.resolve_environment
resolve_environment(t) ==
    Ensure(IF t.env_id = None
           THEN {Returns([o.t EXCEPT !.env_id = o.value], o.value) :
                    o \in TrackerGetOrCreateEnv(t)}
           ELSE {Returns(t, t.env_id)},
           "environment_exists")

\* A resolve_dataproduct that looks only at _product_map and the database,
\* and creates nothing
resolve_dataproduct_get_only(t, path) ==
    LET key == resolve(expanduser(path))
        DP == Db(t).DataProduct
        rows == {i \in DOMAIN DP : DP[i].path = key}
    IN Ensure(IF key \in DOMAIN t._product_map
              THEN {Returns(t, t._product_map[key])}
              ELSE {Returns([t EXCEPT !._product_map = With(@, DP[i].path, i)], i) :
                        i \in rows} \cup
                   (IF rows = {} THEN {Returns(t, None)} ELSE {}),
              "dataproduct_exists")

\* DataProductTracker.resolve_dataproduct: the _product_map entry of the
\* expanded and resolved path; else a row the SELECT by path returns
\* (scalar(): any of them), else a new row from DataProduct.from_path; the
\* path of the row is the key of the new _product_map entry
resolve_dataproduct(t, path) ==
    LET key == resolve(expanduser(path))
        DP == Db(t).DataProduct
        rows == {i \in DOMAIN DP : DP[i].path = key}
        from_path == [path |-> resolve(key), invocation_id |-> None]
    IN Ensure(IF key \in DOMAIN t._product_map
              THEN {Returns(t, t._product_map[key])}
              ELSE IF rows # {}
              THEN {Returns([t EXCEPT !._product_map = With(@, DP[i].path, i)], i) :
                        i \in rows}
              ELSE {Returns([t EXCEPT !.db[t._db].DataProduct = Append(@, from_path),
                                      !._product_map = With(@, from_path.path, Len(DP) + 1)],
                            Len(DP) + 1)},
              "dataproduct_exists")

\* DataProductTracker.resolve_invocation for the call stack with key stack
resolve_invocation(t, stack) ==
    UNION {IF ~e.ok THEN {Propagates(e)}
           ELSE Ensure(IF stack \in DOMAIN e.t._invocation_cache
                       THEN {Returns(e.t, e.t._invocation_cache[stack])}
                       ELSE LET id == Len(Db(e.t).Invocation) + 1
                                invocation == [function |-> stack,
                                               environment_id |-> e.value]
                            IN {Returns([e.t EXCEPT
                                    !.db[e.t._db].Invocation = Append(@, invocation),
                                    !._invocation_cache = With(@, stack, id)], id)},
                       "invocation_exists") :
           e \in resolve_environment(t)}

\* parent_ids = [self.resolve_dataproduct(p) for p in parents]
RECURSIVE resolve_parents(_, _)
resolve_parents(t, parents) ==
    IF parents = << >> THEN {Returns(t, << >>)}
    ELSE UNION {IF ~o.ok THEN {Propagates(o)}
                ELSE {IF r.ok THEN [r EXCEPT !.value = <<o.value>> \o @] ELSE r :
                         r \in resolve_parents(o.t, Tail(parents))} :
                o \in resolve_dataproduct(t, Head(parents))}

\* A resolve_variable_hints that knows no hint
resolve_no_variable_hints(t, variables) == << >>

\* DataProductTracker.resolve_variable_hints: the cached product id of
\* every hinted variable that has one, the others are skipped
resolve_variable_hints(t, variables) ==
    LET hinted == SelectSeq(variables, LAMBDA v : v \in DOMAIN t._variable_cache)
    IN [i \in DOMAIN hinted |-> t._variable_cache[hinted[i]]]

\* DataProductTracker.track(target_file, parents, variable_hints) called
\* from the call stack with key stack: the invocation, a new DataProduct
\* row committed, then the parents and hints resolved, the hierarchy rows
\* inserted and the child entered in _product_map
track(t, target_file, parents, variable_hints, stack) ==
    UNION {IF ~inv.ok THEN {Propagates(inv)}
           ELSE LET dp == [path |-> resolve(target_file), invocation_id |-> inv.value]
                    child_id == Len(Db(inv.t).DataProduct) + 1
                    added == [inv.t EXCEPT !.db[inv.t._db].DataProduct = Append(@, dp)]
                IN {IF ~ps.ok THEN Propagates(ps)
                    ELSE LET variable_ids == resolve_variable_hints(ps.t, variable_hints)
                             relationships == {<<parent_id, child_id>> :
                                 parent_id \in Range(variable_ids) \cup Range(ps.value)}
                         IN Returns([ps.t EXCEPT
                                !.db[ps.t._db].DataProductHierarchy = @ \cup relationships,
                                !._product_map = With(@, dp.path, child_id)], child_id) :
                    ps \in resolve_parents(added, parents)} :
           inv \in resolve_invocation(t, stack)}

\* contracts.variables_associated_with_file, which itself calls
\* resolve_dataproduct(target_file)
variables_associated_with_file(o, target_file, variables) ==
    \A var \in variables :
        \E r \in resolve_dataproduct(o.t, target_file) :
            r.ok /\ o.t._variable_cache[var] = r.value

\* DataProductTracker.associate_variables(target_file, *variables)
associate_variables(t, target_file, variables) ==
    {IF ~o.ok THEN Propagates(o)
     ELSE LET a == Returns([o.t EXCEPT !._variable_cache =
                      [v \in DOMAIN @ \cup variables |->
                          IF v \in variables THEN o.value ELSE @[v]]], None)
          IN IF a.t.contracts /\ ~variables_associated_with_file(a, target_file, variables)
             THEN [a EXCEPT !.ok = FALSE, !.exception = "PostContractError"]
             ELSE a :
     o \in resolve_dataproduct(t, target_file)}

\* DataProductTracker.dump_cache
dump_cache(t) ==
    [t EXCEPT !._product_map = << >>, !._invocation_cache = << >>,
              !._variable_cache = << >>]

\* DataProductTracker.assign_db(database)
assign_db(t, database) == [t EXCEPT !._db = database]

\* The call made last, with the number of DataProduct rows it found
TrackerCall(t, op, target_file, parents, variable_hints, variables, o) ==
    [op |-> op, target_file |-> target_file, parents |-> parents,
     variable_hints |-> variable_hints, variables |-> variables,
     status |-> IF o.ok THEN "returned" ELSE "raised",
     value |-> o.value, exception |-> o.exception,
     products |-> Len(Db(t).DataProduct)]

\* The call that was the last one before this call
CallBefore(t) ==
    [op |-> t.last.op, target_file |-> t.last.target_file,
     variables |-> t.last.variables,
     status |-> t.last.status, value |-> t.last.value]

trackerFrame == <<Variable, Library, Environment, VariableEnvironmentMap,
                  LibraryEnvironmentMap, pc, call, library_map, variable_map,
                  current_try, result, prev, cache, raced, inserted, retry,
                  hostname, entry, ecache, statements, dists>>

AssignDb ==
    /\ \E database \in Databases :
          tracker' = [assign_db(tracker, database) EXCEPT
                         !.last = TrackerCall(tracker, "assign_db", << >>, << >>,
                                     << >>, {}, Returns(tracker, database)),
                         !.before = CallBefore(tracker)]
    /\ UNCHANGED trackerFrame

DumpCache ==
    /\ tracker' = [dump_cache(tracker) EXCEPT
                      !.last = TrackerCall(tracker, "dump_cache", << >>, << >>,
                                  << >>, {}, Returns(tracker, None)),
                      !.before = CallBefore(tracker)]
    /\ UNCHANGED trackerFrame

ResolveEnvironment ==
    /\ \E o \in resolve_environment(tracker) :
          tracker' = [o.t EXCEPT
                         !.last = TrackerCall(tracker, "resolve_environment",
                                     << >>, << >>, << >>, {}, o),
                         !.before = CallBefore(tracker)]
    /\ UNCHANGED trackerFrame

ResolveDataproduct ==
    /\ \E path \in InputPaths :
          \E o \in resolve_dataproduct(tracker, path) :
              tracker' = [o.t EXCEPT
                  !.last = TrackerCall(tracker, "resolve_dataproduct", path,
                              << >>, << >>, {}, o),
                  !.before = CallBefore(tracker)]
    /\ UNCHANGED trackerFrame

AssociateVariables ==
    /\ \E target_file \in InputPaths, variables \in SUBSET VariableIds \ {{}} :
          \E o \in associate_variables(tracker, target_file, variables) :
              tracker' = [o.t EXCEPT
                  !.last = TrackerCall(tracker, "associate_variables", target_file,
                              << >>, << >>, variables, o),
                  !.before = CallBefore(tracker)]
    /\ UNCHANGED trackerFrame

Track ==
    /\ \E target_file \in InputPaths, stack \in Stacks,
          parents \in {<< >>} \cup {<<parent>> : parent \in InputPaths},
          variable_hints \in {<< >>} \cup {<<v>> : v \in VariableIds} :
          \E o \in track(tracker, target_file, parents, variable_hints, stack) :
                tracker' = [o.t EXCEPT
                    !.last = TrackerCall(tracker, "track", target_file, parents,
                                variable_hints, {}, o),
                    !.before = CallBefore(tracker)]
    /\ UNCHANGED trackerFrame

\* A tracker on database 1, which is empty or holds the environment of
\* another host
InitTracker ==
    /\ InitProcs
    /\ hostname = [p \in Procs |-> 1]
    /\ dists = NoDistributions
    /\ \E E \in {<< >>, <<"other">>} :
          tracker = NewTracker(TRUE,
                        [d \in Databases |-> [EmptyDatabase EXCEPT !.Environment = E]])

NextTracker ==
    /\ ncalls < MaxTrackerCalls
    /\ ncalls' = ncalls + 1
    /\ Track \/ ResolveDataproduct \/ AssociateVariables \/ DumpCache

SpecTracker == InitTracker /\ [][NextTracker]_vars

\* A tracker whose database is reassigned: contracts on or off, every
\* database empty or holding the environment of another host
InitAssign ==
    /\ InitProcs
    /\ hostname = [p \in Procs |-> 1]
    /\ dists = NoDistributions
    /\ \E contracts \in BOOLEAN,
          databases \in [Databases -> {EmptyDatabase,
                            [EmptyDatabase EXCEPT !.Environment = <<"other">>]}] :
          tracker = NewTracker(contracts, databases)

NextAssign ==
    /\ AssignDb \/ DumpCache \/ ResolveEnvironment
    /\ UNCHANGED ncalls

SpecAssign == InitAssign /\ [][NextAssign]_vars

-----------------------------------------------------------------------------
(* get_or_create_env called by one process at a time, on one or two hosts *)

MaxSeqCalls == 3     \* calls made one after another in one behaviour

\* The call that returned or raised last
LastCall ==
    IF entry.proc = None THEN NoEntry.last
    ELSE [proc |-> entry.proc,
          environ |-> call[entry.proc].environ,
          distributions |-> call[entry.proc].distributions,
          status |-> result[entry.proc].status,
          id |-> result[entry.proc].id]

\* What get_or_create_env(db, V, L) of p finds when it is entered: the
\* tables, the cache entry of its key and the rows its query selects from
Snapshot(p, V, L) ==
    [proc |-> p, Variable |-> Variable, Library |-> Library,
     Environment |-> Environment,
     VariableEnvironmentMap |-> VariableEnvironmentMap,
     LibraryEnvironmentMap |-> LibraryEnvironmentMap,
     cached |-> CacheGet(cache[p], get_key(V, L, hostname[p])),
     candidates |-> MatchingEnvironments(V, L, hostname[p]),
     last |-> LastCall,
     errors |-> 0,
     lookup |-> NoLookupError]

\* The variable lists of the calls made one after another: every set of
\* pairs once, as its sorted list
SetLists == {V \in VarLists : NoDuplicates(V) /\ V = sorted(V)}

\* A call is started while no other call runs and fewer than budget calls
\* have been started
SeqCall(p, budget) ==
    /\ \A q \in Procs : pc[q] = "idle"
    /\ ncalls < budget
    /\ GetOrCreateEnv(p)
    /\ call'[p].environ \in SetLists
    /\ entry' = Snapshot(p, call'[p].environ, call'[p].distributions)

SeqStart(p) == SeqCall(p, MaxSeqCalls)

\* The running call takes its next step
SeqStep(p) ==
    /\ \/ LibrariesSelect(p)
       \/ LibrariesInsert(p)
       \/ VariablesSelect(p)
       \/ VariablesInsert(p)
       \/ CreateEnvironment(p)
    /\ UNCHANGED entry

\* Process 1 runs on host 1, process 2 on host 1 or on host 2
InitSeq ==
    /\ InitProcs
    /\ InitOthers
    /\ \E h \in Hosts : hostname = [p \in Procs |-> IF p = 1 THEN 1 ELSE h]

NextSeq ==
    /\ \E p \in Procs : SeqStart(p) \/ SeqStep(p)
    /\ UNCHANGED <<hostname, ecache, otherVars>>

SpecSeq == InitSeq /\ [][NextSeq]_vars

TypeOK ==
    /\ \A p \in Procs : pc[p] \in {"idle", "libraries_select",
            "libraries_insert", "variables_select", "variables_insert",
            "create_environment"}
    /\ ncalls \in Nat

-----------------------------------------------------------------------------
(* Properties *)

Finished(p, op) ==
    pc[p] = "idle" /\ call[p].op = op /\ result[p].status # "none"

\* C1: in every reachable state no two Environment rows have the same host,
\* the same Variable id set and the same Library id set.
C1_NoEquivalentEnvironments ==
    \A e1, e2 \in DOMAIN Environment :
        (/\ Environment[e1] = Environment[e2]
         /\ EnvVariableIds(e1) = EnvVariableIds(e2)
         /\ EnvLibraryIds(e1) = EnvLibraryIds(e2)) => e1 = e2

\* C2: the set-matching query selects a stored environment exactly when its
\* host is the queried host, its variable set equals the queried variable set
\* and its library set equals the queried library set (non-empty queries
\* without repeated pairs).
C2_ExactSetMatch ==
    \A V \in VarLists, L \in LibLists :
        (V # << >> /\ L # << >> /\ NoDuplicates(V) /\ NoDuplicates(L)) =>
            \A eid \in DOMAIN Environment :
                eid \in MatchingEnvironments(V, L, Environment[eid])
                    <=> (EnvVariables(eid) = Range(V) /\ EnvLibraries(eid) = Range(L))

\* C3: a get_or_create_env call with non-empty lists that immediately follows
\* a returned call of the same process with the same lists returns
\* created = False and the id the first call returned.
C3_SecondCallReturnsSame ==
    \A p \in Procs :
        (/\ Finished(p, "get_or_create_env")
         /\ prev[p].rel = "same"
         /\ call[p].environ # << >>
         /\ call[p].distributions # << >>)
        => (/\ result[p].status = "returned"
            /\ ~result[p].created
            /\ result[p].id = prev[p].id)

C3_Witness ==
    \E p \in Procs :
        /\ Finished(p, "get_or_create_env")
        /\ prev[p].rel = "same"
        /\ call[p].environ # << >>
        /\ call[p].distributions # << >>
        /\ result[p].status = "returned"

\* C4: the environment whose id get_or_create_env returns has as many
\* associated variables (libraries) as the supplied variable (library) list,
\* and each of them is a member of the supplied list.
C4_ReturnedEnvironmentHasSuppliedSets ==
    \A p \in Procs :
        (Finished(p, "get_or_create_env") /\ result[p].status = "returned") =>
            LET eid == result[p].id IN
            /\ Cardinality(EnvVariableIds(eid)) = Len(call[p].environ)
            /\ Cardinality(EnvLibraryIds(eid)) = Len(call[p].distributions)
            /\ EnvVariables(eid) \subseteq Range(call[p].environ)
            /\ EnvLibraries(eid) \subseteq Range(call[p].distributions)

\* C5: a leaf reflection that lost the insert race for a pair it read as
\* missing ends by returning the ids of the stored rows, not by raising.
C5_LoserReturnsSurvivor ==
    \A p \in Procs :
        (pc[p] = "idle" /\ raced[p]) =>
            /\ result[p].status = "returned"
            /\ call[p].op = "reflect_variables" =>
                  \A i \in DOMAIN call[p].environ :
                      Variable[result[p].ids[i]] = call[p].environ[i]
            /\ call[p].op = "reflect_libraries" =>
                  {Library[i] : i \in result[p].ids} = Range(call[p].distributions)

\* C6: no two Variable rows share (key, value) and no two Library rows share
\* (name, version).
C6_LeafRowsUnique == NoDuplicates(Variable) /\ NoDuplicates(Library)

C6_Witness ==
    \E p \in Procs :
        /\ raced[p]
        /\ result[p].status = "raised"
        /\ call[p].op = "reflect_variables"
        /\ Range(call[p].environ) \subseteq Range(Variable)

\* C7: when every attempt of the wrapped function fails with a database
\* error, the wrapper never returns: it ends raised with the last exception
\* as cause.
C7_ExhaustedRetriesRaise ==
    (/\ retry.outcome \notin {"idle", "running"}
     /\ retry.error \in SubclassesOfDatabaseError
     /\ retry.failures >= retry.max_retries)
        => (retry.outcome = "raised" /\ retry.cause = retry.calls)

\* C8: when the wrapped function fails on its first k attempts and succeeds
\* on attempt k + 1, 1 <= k < max_retries, the wrapper makes k + 1
\* invocations and returns the result of the last.
C8_RetriesUntilSuccess ==
    (/\ retry.outcome \notin {"idle", "running"}
     /\ retry.error \in SubclassesOfDatabaseError
     /\ 1 <= retry.failures
     /\ retry.failures < retry.max_retries)
        => (/\ retry.outcome = "returned"
            /\ retry.calls = retry.failures + 1
            /\ retry.value = retry.failures + 1)

\* C9: the order of the supplied lists does not matter: a call that repeats
\* the previous call of the process with the lists permuted returns the same
\* id, a cache holds one entry for all orderings of the same lists, and the
\* query selects the same rows for every ordering.
C9_OrderIndependent ==
    /\ \A p \in Procs :
          (Finished(p, "get_or_create_env") /\ prev[p].rel = "permuted")
              => (result[p].status = "returned" /\ result[p].id = prev[p].id)
    /\ \A p \in Procs : \A e1, e2 \in cache[p] :
          (/\ IsPermutation(e1[1][1], e2[1][1])
           /\ IsPermutation(e1[1][2], e2[1][2])
           /\ e1[1][3] = e2[1][3]) => e1 = e2
    /\ \A p \in Procs :
          MatchingEnvironments(call[p].environ, call[p].distributions, hostname[p])
              = MatchingEnvironments(sorted(call[p].environ),
                                     sorted(call[p].distributions), hostname[p])

C9_Witness ==
    \E p \in Procs :
        /\ Finished(p, "get_or_create_env")
        /\ prev[p].rel = "permuted"
        /\ result[p].status = "returned"
        /\ result[p].id \in DOMAIN Environment

\* C10: a leaf reflection that repeats the previous reflection of the process
\* with the same pairs returns the same ids and inserts no row.
C10_LeafReflectionIdempotent ==
    \A p \in Procs :
        /\ (Finished(p, "reflect_variables") /\ prev[p].rel # "none") =>
              /\ result[p].status = "returned"
              /\ inserted[p] = 0
              /\ prev[p].rel = "same" => result[p].ids = prev[p].ids
              /\ Range(result[p].ids) = Range(prev[p].ids)
        /\ (Finished(p, "reflect_libraries") /\ prev[p].rel # "none") =>
              /\ result[p].status = "returned"
              /\ inserted[p] = 0
              /\ result[p].ids = prev[p].ids

C10_Witness ==
    \E p \in Procs :
        /\ Finished(p, "reflect_variables")
        /\ prev[p].rel = "same"
        /\ result[p].status = "returned"
        /\ call[p].environ # << >>
        /\ Range(call[p].environ) \subseteq Range(Variable)

-----------------------------------------------------------------------------
(* Calls made one after another against a store that is torn down from      *)
(* outside and whose composite insert may fail                              *)

\* Base.metadata.drop_all and create_all between two calls: every table is
\* empty again and row ids restart at 1; the module-level _env_cache of each
\* process is not cleared
ExternalTeardown ==
    /\ \A q \in Procs : pc[q] = "idle"
    /\ Environment # << >>
    /\ Variable' = << >> /\ Library' = << >> /\ Environment' = << >>
    /\ VariableEnvironmentMap' = {} /\ LibraryEnvironmentMap' = {}
    /\ UNCHANGED <<pc, call, library_map, variable_map, current_try, result,
                   prev, cache, raced, inserted, ncalls, retry, entry, statements>>

\* The three tables the composite insert writes
CompositeTables ==
    [Environment |-> Environment,
     LibraryEnvironmentMap |-> LibraryEnvironmentMap,
     VariableEnvironmentMap |-> VariableEnvironmentMap]

\* The statements of the composite insert, in the order the code issues them
CompositeStatements == <<"flush", "library_mappings", "variable_mappings", "commit">>

\* The tables as the session of p sees them once the statements before the
\* failing one have run: db.add(env) and db.flush(), then the two
\* bulk_insert_mappings
WorkingTables(p, failing) ==
    LET env_id == Len(Environment) + 1
        flushed == [CompositeTables EXCEPT
                       !.Environment = Append(@, hostname[p])]
        with_libraries == [flushed EXCEPT
                       !.LibraryEnvironmentMap = BulkInsertMappings(@,
                           {<<env_id, lib_id>> : lib_id \in Values(library_map[p])})]
        with_variables == [with_libraries EXCEPT
                       !.VariableEnvironmentMap = BulkInsertMappings(@,
                           {<<env_id, var_id>> : var_id \in Values(variable_map[p])})]
    IN CASE failing = "flush"             -> CompositeTables
         [] failing = "library_mappings"  -> flushed
         [] failing = "variable_mappings" -> with_libraries
         [] failing = "commit"            -> with_variables

\* get_or_create_env, the create path: a DatabaseError is raised by one of
\* the statements inside the `with db:` block of the composite insert.  The
\* session rolls back and the exception leaves get_or_create_env, which no
\* db_retry wraps.
CreateEnvironmentFails(p) ==
    /\ pc[p] = "create_environment"
    /\ entry' = [entry EXCEPT !.errors = @ + 1]
    /\ \E k \in DOMAIN CompositeStatements :
          LET after == SessionExitOnError(CompositeTables,
                           WorkingTables(p, CompositeStatements[k]))
          IN /\ Environment' = after.Environment
             /\ LibraryEnvironmentMap' = after.LibraryEnvironmentMap
             /\ VariableEnvironmentMap' = after.VariableEnvironmentMap
    /\ Finish(p, RaisedWith("DatabaseError"))
    /\ UNCHANGED <<Variable, Library, call, prev, cache, raced, inserted,
                   ncalls, retry, statements>>

NextTeardown ==
    /\ \/ \E p \in Procs :
             \/ SeqCall(p, MaxCalls)
             \/ SeqStep(p)
             \/ CreateEnvironmentFails(p)
       \/ ExternalTeardown
    /\ UNCHANGED <<hostname, ecache, otherVars>>

SpecTeardown == Init /\ [][NextTeardown]_vars

\* As many calls as in SpecSeq, all on one host, against a store that is
\* torn down from outside
NextReuse ==
    /\ \/ \E p \in Procs : SeqStart(p) \/ SeqStep(p)
       \/ ExternalTeardown
    /\ UNCHANGED <<hostname, ecache, otherVars>>

SpecReuse == Init /\ [][NextReuse]_vars

-----------------------------------------------------------------------------
(* Calls made one after another whose set-matching read may fail *)

\* get_matching_environment_single_query raises a DatabaseError of class x
\* on its first invocation (the store cannot be read).  The function is
\* decorated with @db_retry(): the wrapper catches the error, sleeps and
\* either raises RuntimeError, which passes get_environment and
\* get_or_create_env (except ModelDoesNotExist does not match it), or
\* invokes the lookup again.
LookupFails(p) ==
    /\ \A q \in Procs : pc[q] = "idle"
    /\ ncalls < MaxCalls
    /\ \E V \in SetLists, L \in LibLists, x \in SubclassesOfDatabaseError :
          LET first == [RetryStart(DefaultMaxRetries, DefaultBackoffFactor, 1, x)
                           EXCEPT !.calls = 1]
              r == IF x \in Caught THEN AfterDatabaseError(first)
                   ELSE [first EXCEPT !.outcome = "propagated", !.exception = x]
          IN /\ StartCall(p, "get_or_create_env", V, L)
             /\ IF r.outcome = "running"
                THEN /\ entry' = [Snapshot(p, V, L) EXCEPT !.lookup =
                            [error |-> x, slept |-> r.slept, calls |-> r.calls + 1]]
                     /\ \E o \in LookupOutcomes(cache[p], V, L, hostname[p]) :
                           /\ cache' = [cache EXCEPT ![p] = o[2]]
                           /\ IF o[1] # None
                              THEN Finish(p, Returned(o[1], FALSE, << >>))
                              ELSE ExceptModelDoesNotExist(p)
                ELSE /\ entry' = [Snapshot(p, V, L) EXCEPT !.lookup =
                            [error |-> x, slept |-> r.slept, calls |-> r.calls]]
                     /\ Finish(p, RaisedWith(r.exception))
                     /\ UNCHANGED cache

NextLookup ==
    /\ \E p \in Procs :
          \/ SeqCall(p, MaxCalls)
          \/ SeqStep(p)
          \/ LookupFails(p)
    /\ UNCHANGED <<hostname, ecache, otherVars>>

SpecLookup == Init /\ [][NextLookup]_vars

-----------------------------------------------------------------------------
(* Concurrent get_or_create_env calls of processes that keep running *)

MaxLiveCalls == 2    \* calls started in one behaviour of SpecLive

\* The variable lists of these calls: every set of pairs as its sorted
\* list, and every pair given twice
PairLists == SetLists \cup {<<v, v>> : v \in VarPairs}

\* A call is started, possibly while the call of the other process runs
LiveCall(p) ==
    /\ ncalls < MaxLiveCalls
    /\ GetOrCreateEnv(p)
    /\ call'[p].environ \in PairLists

\* The next statement of the running call of p
CallStep(p) ==
    /\ \/ LibrariesSelect(p)
       \/ LibrariesInsert(p)
       \/ VariablesSelect(p)
       \/ VariablesInsert(p)
       \/ CreateEnvironment(p)
    /\ UNCHANGED <<seqVars, otherVars>>

NextLive ==
    \E p \in Procs :
        \/ LiveCall(p) /\ UNCHANGED <<seqVars, otherVars>>
        \/ CallStep(p)

\* Every process is an operating-system process of its own: a call that
\* has a statement to run runs it
SpecLive ==
    Init /\ [][NextLive]_vars /\ \A p \in Procs : WF_vars(CallStep(p))

-----------------------------------------------------------------------------
(* Calls made one after another with lists that may repeat a pair *)

\* A call is started while no other call runs; its variable list is a
\* sorted list without duplicates or one pair given twice
PairCall(p) ==
    /\ \A q \in Procs : pc[q] = "idle"
    /\ ncalls < MaxSeqCalls
    /\ GetOrCreateEnv(p)
    /\ call'[p].environ \in PairLists
    /\ entry' = Snapshot(p, call'[p].environ, call'[p].distributions)

NextPairs ==
    /\ \E p \in Procs : PairCall(p) \/ SeqStep(p)
    /\ UNCHANGED <<hostname, ecache, otherVars>>

SpecPairs == Init /\ [][NextPairs]_vars

-----------------------------------------------------------------------------
(* Properties of calls made one after another *)

\* The pairs of the rows that map associates with environment eid
PairsOf(map, table, eid) == {table[r[2]] : r \in {x \in map : x[1] = eid}}

IsPrefix(s, t) == Len(s) <= Len(t) /\ SubSeq(t, 1, Len(s)) = s

\* The call of p is the one entry describes, and it has ended
Ended(p) == entry.proc = p /\ Finished(p, "get_or_create_env")

\* When the call of p was entered the store held an environment of its host
\* with exactly the requested variable set and library set
EquivalentOnEntry(p) ==
    \E eid \in DOMAIN entry.Environment :
        /\ entry.Environment[eid] = hostname[p]
        /\ PairsOf(entry.VariableEnvironmentMap, entry.Variable, eid)
              = Range(call[p].environ)
        /\ PairsOf(entry.LibraryEnvironmentMap, entry.Library, eid)
              = Range(call[p].distributions)

\* The rows the call of p added to the store are those of one new
\* environment for its request: one Environment row, one association row
\* per distinct pair, a leaf row for every pair that was not stored
AddedOneEnvironment(p) ==
    LET id == result[p].id
        V == Range(call[p].environ)
        L == Range(call[p].distributions)
        new_vem == VariableEnvironmentMap \ entry.VariableEnvironmentMap
        new_lem == LibraryEnvironmentMap \ entry.LibraryEnvironmentMap
    IN /\ Environment = Append(entry.Environment, hostname[p])
       /\ id = Len(Environment)
       /\ new_vem \subseteq {id} \X DOMAIN Variable
       /\ new_lem \subseteq {id} \X DOMAIN Library
       /\ Cardinality(new_vem) = Cardinality(V)
       /\ Cardinality(new_lem) = Cardinality(L)
       /\ EnvVariables(id) = V
       /\ EnvLibraries(id) = L
       /\ IsPrefix(entry.Variable, Variable)
       /\ IsPrefix(entry.Library, Library)
       /\ NoDuplicates(Variable) /\ NoDuplicates(Library)
       /\ Range(Variable) = Range(entry.Variable) \cup V
       /\ Range(Library) = Range(entry.Library) \cup L

\* C11: a call entered while the store holds no equivalent environment
\* returns created = True and has added exactly the rows of one new
\* environment: one Environment row, one association row per distinct pair,
\* all with the new id, and a leaf row only for the pairs not stored before.
C11_CreateAddsExactRows ==
    \A p \in Procs :
        (Ended(p) /\ ~EquivalentOnEntry(p)) =>
            /\ result[p].status = "returned"
            /\ result[p].created
            /\ AddedOneEnvironment(p)

\* C12: a get_or_create_env call that returned created = False has written
\* nothing: each of the five tables is what it was when the call was entered,
\* so every row count is the same after the call as before it.
C12_NotCreatedWritesNothing ==
    \A p \in Procs :
        (Ended(p) /\ result[p].status = "returned" /\ ~result[p].created) =>
            /\ Len(Variable) = Len(entry.Variable)
            /\ Len(Library) = Len(entry.Library)
            /\ Len(Environment) = Len(entry.Environment)
            /\ Cardinality(VariableEnvironmentMap)
                  = Cardinality(entry.VariableEnvironmentMap)
            /\ Cardinality(LibraryEnvironmentMap)
                  = Cardinality(entry.LibraryEnvironmentMap)
            /\ store = <<entry.Variable, entry.Library, entry.Environment,
                         entry.VariableEnvironmentMap, entry.LibraryEnvironmentMap>>

C12_Witness ==
    \E p \in Procs :
        /\ Ended(p)
        /\ result[p].status = "returned"
        /\ ~result[p].created
        /\ result[p].id \in DOMAIN Environment
        /\ Variable # << >> /\ Library # << >>
        /\ VariableEnvironmentMap # {} /\ LibraryEnvironmentMap # {}

\* The call of p resolved a variable set that strictly contains the
\* non-empty set resolved by the call before, on the same host and with the
\* same libraries
ExtendsLastCall(p) ==
    /\ Ended(p)
    /\ entry.last.status = "returned"
    /\ hostname[entry.last.proc] = hostname[p]
    /\ Range(entry.last.distributions) = Range(call[p].distributions)
    /\ entry.last.environ # << >>
    /\ Range(entry.last.environ) \subseteq Range(call[p].environ)
    /\ Range(entry.last.environ) # Range(call[p].environ)

\* C13: resolving V1 and then a strict superset V2 of it (same host, same
\* libraries) gives two distinct environment ids; every pair of V1 is one
\* Variable row that both environments reference, and each environment keeps
\* its own variable set.
C13_SubsetThenSupersetDistinct ==
    \A p \in Procs :
        ExtendsLastCall(p) =>
            /\ result[p].status = "returned"
            /\ result[p].id # entry.last.id
            /\ \A a \in Range(entry.last.environ) :
                  \E i \in DOMAIN Variable :
                      /\ Variable[i] = a
                      /\ \A j \in DOMAIN Variable : Variable[j] = a => j = i
                      /\ <<entry.last.id, i>> \in VariableEnvironmentMap
                      /\ <<result[p].id, i>> \in VariableEnvironmentMap
            /\ EnvVariables(entry.last.id) = Range(entry.last.environ)
            /\ EnvVariables(result[p].id) = Range(call[p].environ)

\* When the call of p was entered the store held an environment of another
\* host with exactly the requested variable set and library set
EquivalentOnOtherHost(p) ==
    \E eid \in DOMAIN entry.Environment :
        /\ entry.Environment[eid] # hostname[p]
        /\ PairsOf(entry.VariableEnvironmentMap, entry.Variable, eid)
              = Range(call[p].environ)
        /\ PairsOf(entry.LibraryEnvironmentMap, entry.Library, eid)
              = Range(call[p].distributions)

\* C14: the rows the lookup selects from have the host of the caller, the
\* environment a call returns has the host of the caller, and a call entered
\* while only other hosts have environments in the store (whatever their
\* sets) creates a new environment.
C14_HostFilter ==
    \A p \in Procs :
        Ended(p) =>
            /\ \A eid \in entry.candidates : entry.Environment[eid] = hostname[p]
            /\ result[p].status = "returned" =>
                  /\ result[p].id \in DOMAIN Environment
                  /\ Environment[result[p].id] = hostname[p]
            /\ (\A eid \in DOMAIN entry.Environment :
                    entry.Environment[eid] # hostname[p]) =>
                  /\ result[p].status = "returned"
                  /\ result[p].created
                  /\ result[p].id \notin DOMAIN entry.Environment

C14_Witness ==
    \E p \in Procs :
        /\ Ended(p)
        /\ EquivalentOnOtherHost(p)
        /\ call[p].environ # << >>
        /\ call[p].distributions # << >>
        /\ result[p].status = "returned"
        /\ result[p].created

\* C15: a call whose lookup ran the query (no cache entry for its key) and
\* whose query had one or more rows to select from returns, without raising,
\* the smallest environment id among those rows.
C15_SmallestIdAmongMatches ==
    \A p \in Procs :
        (Ended(p) /\ entry.cached = None /\ entry.candidates # {}) =>
            /\ result[p].status = "returned"
            /\ result[p].id \in entry.candidates
            /\ \A eid \in entry.candidates : result[p].id <= eid

\* The cache entry of process p for the key of its call
CachedNow(p) ==
    CacheGet(cache[p], get_key(call[p].environ, call[p].distributions, hostname[p]))

\* C16: a call that found a cache entry for its key returns the cached id
\* when an Environment row with that id was stored; when none was stored the
\* entry is evicted and the call does what the full lookup does: it returns
\* a row the query selects and caches it, or starts the create path with no
\* entry for the key.
C16_CacheHitVerified ==
    \A p \in Procs :
        (entry.proc = p /\ entry.cached # None) =>
            IF entry.cached \in DOMAIN entry.Environment
            THEN /\ Ended(p)
                 /\ result[p] = Returned(entry.cached, FALSE, << >>)
                 /\ CachedNow(p) = entry.cached
            ELSE IF entry.candidates # {}
                 THEN /\ Ended(p)
                      /\ result[p].status = "returned"
                      /\ ~result[p].created
                      /\ result[p].id \in entry.candidates
                      /\ CachedNow(p) = result[p].id
                 ELSE /\ pc[p] # "idle" => CachedNow(p) = None
                      /\ result[p].status = "raised" => CachedNow(p) = None
                      /\ result[p].status = "returned" =>
                            /\ result[p].created
                            /\ result[p].id \notin DOMAIN entry.Environment
                            /\ CachedNow(p) = result[p].id

C16_Witness ==
    \E p \in Procs :
        /\ Ended(p)
        /\ entry.cached # None
        /\ entry.cached \notin DOMAIN entry.Environment
        /\ result[p].status = "returned"
        /\ result[p].created
        /\ call[p].environ # << >>

\* C18: a get_or_create_env call whose composite insert met a database
\* error once does not end with that error: the insert is tried again and
\* the call returns.
C18_CompositeInsertRetried ==
    \A p \in Procs :
        (Ended(p) /\ entry.errors = 1) => result[p].status = "returned"

-----------------------------------------------------------------------------
(* Properties of EnvironmentCache *)

\* C17: a get(key) returns the id of the last set(key, id) when fewer than
\* ttl steps of the clock have passed since that set; otherwise it returns
\* None and leaves neither value nor timestamp for the key.  The timestamp
\* of every entry is the time of its set: no get moves it.
C17_EntryExpiresAfterTTL ==
    /\ \A k \in DOMAIN ecache._cache :
          /\ k \in DOMAIN ecache._timestamps
          /\ k \in DOMAIN ecache.stored
          /\ ecache._timestamps[k] = ecache.stored[k][2]
    /\ ecache.op = "get" =>
          LET k == ecache.key IN
          IF k \in DOMAIN ecache.stored /\ ecache.now - ecache.stored[k][2] < ttl
          THEN /\ ecache.value = ecache.stored[k][1]
               /\ k \in DOMAIN ecache._cache
          ELSE /\ ecache.value = None
               /\ k \notin DOMAIN ecache._cache
               /\ k \notin DOMAIN ecache._timestamps

C17_Witness ==
    /\ ecache.op = "get"
    /\ ecache.key \in DOMAIN ecache.stored
    /\ ecache.now - ecache.stored[ecache.key][2] = ttl
    /\ ecache.value = None
    /\ ecache._cache # << >>

-----------------------------------------------------------------------------
(* Properties of db_retry, by the class of the exception *)

\* The wrapper has ended after the wrapped function raised
EndedAfterError ==
    /\ retry.outcome \notin {"idle", "running"}
    /\ retry.failures >= 1
    /\ retry.calls >= 1

\* C19: an exception of the wrapped function that is not a database error
\* leaves the wrapper unchanged on the first attempt: one invocation, no
\* sleep.
C19_OtherExceptionsPropagate ==
    (EndedAfterError /\ retry.error \notin SubclassesOfDatabaseError) =>
        /\ retry.outcome = "propagated"
        /\ retry.exception = retry.error
        /\ retry.calls = 1
        /\ retry.slept = << >>

C19_Witness ==
    /\ retry.outcome = "propagated"
    /\ retry.error = "ValueError"
    /\ retry.max_retries >= 3
    /\ retry.failures >= 2

\* C20: a database error that is not a uniqueness race (the store is
\* unreachable or misconfigured) is surfaced at once: the wrapper ends after
\* one invocation and without a sleep.
C20_UnreachableStoreSurfacedAtOnce ==
    (EndedAfterError /\ retry.error = "OperationalError") =>
        /\ retry.outcome \in {"propagated", "raised"}
        /\ retry.calls = 1
        /\ retry.slept = << >>

-----------------------------------------------------------------------------
(* Properties of the exceptions that leave get_or_create_env *)

\* C21: no get_or_create_env call ends with ModelDoesNotExist: a call whose
\* lookup found nothing goes on to the create path, and whatever ends it
\* afterwards is a return or an exception of another class.
C21_NotFoundNeverEscapes ==
    \A p \in Procs :
        /\ Finished(p, "get_or_create_env") =>
              result[p].exception # "ModelDoesNotExist"
        /\ (call[p].op = "get_or_create_env" /\ pc[p] # "idle") =>
              result[p].status = "none"

C21_Witness ==
    \E p \in Procs :
        /\ Finished(p, "get_or_create_env")
        /\ result[p].status = "raised"
        /\ result[p].exception = "RuntimeError"
        /\ Environment # << >>

-----------------------------------------------------------------------------
(* Properties of the store across steps *)

\* The association rows of environment eid in map
RowsOf(map, eid) == {r \in map : r[1] = eid}

\* C22: the store is insert-only: every step of every process keeps each
\* committed Variable, Library and Environment row under its id and each
\* association row, and leaves the host and the association rows of every
\* existing environment as they were.
C22_InsertOnly ==
    [][/\ IsPrefix(Variable, Variable')
       /\ IsPrefix(Library, Library')
       /\ IsPrefix(Environment, Environment')
       /\ VariableEnvironmentMap \subseteq VariableEnvironmentMap'
       /\ LibraryEnvironmentMap \subseteq LibraryEnvironmentMap'
       /\ \A eid \in DOMAIN Environment :
             /\ RowsOf(VariableEnvironmentMap', eid) = RowsOf(VariableEnvironmentMap, eid)
             /\ RowsOf(LibraryEnvironmentMap', eid) = RowsOf(LibraryEnvironmentMap, eid)]_vars

C22_Witness ==
    /\ Len(Environment) = 2
    /\ RowsOf(VariableEnvironmentMap, 1) # {}
    /\ RowsOf(LibraryEnvironmentMap, 1) # {}
    /\ RowsOf(VariableEnvironmentMap, 2) # {}
    /\ Len(Variable) = 2

-----------------------------------------------------------------------------
(* Properties of the maps and lists leaf reflection returns *)

LeafOps == {"reflect_variables", "reflect_variables_bulk",
            "reflect_libraries", "reflect_libraries_bulk"}

\* The call of p was a leaf reflection of op and it returned
LeafReturned(p, op) == Finished(p, op) /\ result[p].status = "returned"

\* C23: a bulk reflection that returns, returns a map whose keys are the
\* input pairs and whose value for a pair is the id of the stored row with
\* that pair; reflect_variables returns a list with one id per input
\* variable, the i-th id that of the row with the i-th pair.
C23_IdForEveryInputPair ==
    \A p \in Procs :
        /\ LeafReturned(p, "reflect_variables_bulk") =>
              /\ DOMAIN result[p].ids = Range(call[p].environ)
              /\ \A kv \in Range(call[p].environ) :
                    /\ result[p].ids[kv] \in DOMAIN Variable
                    /\ Variable[result[p].ids[kv]] = kv
        /\ LeafReturned(p, "reflect_libraries_bulk") =>
              /\ DOMAIN result[p].ids = Range(call[p].distributions)
              /\ \A nv \in Range(call[p].distributions) :
                    /\ result[p].ids[nv] \in DOMAIN Library
                    /\ Library[result[p].ids[nv]] = nv
        /\ LeafReturned(p, "reflect_variables") =>
              /\ Len(result[p].ids) = Len(call[p].environ)
              /\ \A i \in DOMAIN call[p].environ :
                    /\ result[p].ids[i] \in DOMAIN Variable
                    /\ Variable[result[p].ids[i]] = call[p].environ[i]

\* A returned map with a pair found by the SELECT and a pair inserted by
\* the call
C23_Witness ==
    \E p \in Procs :
        /\ LeafReturned(p, "reflect_variables_bulk")
        /\ inserted[p] = 1
        /\ Cardinality(DOMAIN result[p].ids) = 2

\* C24: a leaf reflection with an empty input list returns an empty map
\* (reflect_variables an empty list, reflect_libraries an empty set), has
\* executed no SQL statement and has inserted no row.
C24_EmptyInputNoQuery ==
    \A p \in Procs :
        (/\ pc[p] = "idle"
         /\ call[p].op \in LeafOps
         /\ call[p].environ = << >>
         /\ call[p].distributions = << >>) =>
            /\ result[p].status = "returned"
            /\ IF call[p].op = "reflect_libraries"
               THEN result[p].ids = {}
               ELSE result[p].ids = << >>
            /\ statements[p] = 0
            /\ inserted[p] = 0

C24_Witness ==
    \E p \in Procs :
        /\ LeafReturned(p, "reflect_variables_bulk")
        /\ call[p].environ = << >>
        /\ result[p].ids = << >>
        /\ Variable # << >>

-----------------------------------------------------------------------------
(* Properties of yield_distributions *)

\* C25: the generator yields at most one entry per package name, and the
\* entry yielded for a name is the first one the metadata lists for it,
\* whatever the versions of the later ones.
C25_OneEntryPerName ==
    /\ \A i, j \in DOMAIN dists.yielded :
          dists.yielded[i][1] = dists.yielded[j][1] => i = j
    /\ \A i \in DOMAIN dists.yielded :
          \E k \in 1..dists.index :
              /\ Distribution(dists.metadata[k]) = dists.yielded[i]
              /\ \A j \in 1..(k - 1) :
                    dists.metadata[j][1] # dists.yielded[i][1]

-----------------------------------------------------------------------------
(* Properties of DataProductTracker *)

\* C26: after any sequence of assign_db, dump_cache and resolve_environment
\* calls, the id a resolve_environment call returned is the id of an
\* Environment row of the database assigned to the tracker.
C26_ResolvedEnvironmentExists ==
    (tracker.last.op = "resolve_environment" /\ tracker.last.status = "returned")
        => tracker.last.value \in DOMAIN Db(tracker).Environment

\* The key resolve_dataproduct looks a path up by
ProductKey(path) == resolve(expanduser(path))

\* The DataProduct rows with path key among the first n rows of the
\* assigned database
ProductsAt(key, n) ==
    {i \in 1..n : i \in DOMAIN Db(tracker).DataProduct
                   /\ Db(tracker).DataProduct[i].path = key}

\* The last call and the call before it both returned
BothReturned(op_before, op_last) ==
    /\ tracker.before.op = op_before /\ tracker.before.status = "returned"
    /\ tracker.last.op = op_last /\ tracker.last.status = "returned"

\* C27: after track(parent) followed by track(child, parents=[parent]) the
\* row track stored for the child has the path of the child, and a
\* hierarchy row joins the product id track(parent) returned, as parent, to
\* the product id of the child; from whichever call stacks the two calls
\* were made.
C27_ChildHasTrackedParent ==
    (BothReturned("track", "track")
        /\ tracker.last.parents = <<tracker.before.target_file>>) =>
            /\ tracker.last.value \in DOMAIN Db(tracker).DataProduct
            /\ Db(tracker).DataProduct[tracker.last.value].path
                  = resolve(tracker.last.target_file)
            /\ <<tracker.before.value, tracker.last.value>>
                  \in Db(tracker).DataProductHierarchy

\* C28: resolve_dataproduct(path) returns the id of a DataProduct row with
\* that path; it inserts that row when no row had the path and inserts
\* nothing otherwise; a call that repeats the call before it returns the
\* same id and inserts nothing; and track(child, parents=[p]) returns for a
\* p that no row had, with a row of p recorded as parent of the child.
C28_ResolveDataproductGetOrCreate ==
    LET l == tracker.last
        DP == Db(tracker).DataProduct
    IN /\ l.op = "resolve_dataproduct" =>
             /\ l.status = "returned"
             /\ l.value \in ProductsAt(ProductKey(l.target_file), Len(DP))
             /\ IF ProductsAt(ProductKey(l.target_file), l.products) # {}
                THEN Len(DP) = l.products
                ELSE Len(DP) = l.products + 1 /\ l.value = Len(DP)
       /\ (BothReturned("resolve_dataproduct", "resolve_dataproduct")
             /\ l.target_file = tracker.before.target_file) =>
                /\ l.value = tracker.before.value
                /\ Len(DP) = l.products
       /\ (l.op = "track" /\ Len(l.parents) = 1
             /\ ProductsAt(ProductKey(l.parents[1]), l.products) = {}) =>
                /\ l.status = "returned"
                /\ \E parent_id \in ProductsAt(ProductKey(l.parents[1]), Len(DP)) :
                      <<parent_id, l.value>> \in Db(tracker).DataProductHierarchy

C28_Witness ==
    /\ BothReturned("resolve_dataproduct", "resolve_dataproduct")
    /\ tracker.last.target_file = tracker.before.target_file
    /\ tracker.last.target_file[1] = "~"
    /\ tracker.last.value = 1
    /\ Len(Db(tracker).DataProduct) = 1

\* C29: after associate_variables(f, v1..vn) every vi maps in
\* _variable_cache to the id resolve_dataproduct(f) returns, the id of a
\* row with the path of f; a track(child, variable_hints) that follows it
\* records that row as parent of the child for a hinted vi; and every track
\* records the cached product of each hinted variable that has one and
\* returns without error when a hinted variable has none.
C29_HintsResolveToParents ==
    LET l == tracker.last
        H == Db(tracker).DataProductHierarchy
        hinted == {v \in Range(l.variable_hints) : v \in DOMAIN tracker._variable_cache}
    IN /\ l.op = "associate_variables" =>
             /\ l.status = "returned"
             /\ \A v \in l.variables :
                   /\ v \in DOMAIN tracker._variable_cache
                   /\ tracker._variable_cache[v]
                         \in ProductsAt(ProductKey(l.target_file),
                                        Len(Db(tracker).DataProduct))
                   /\ \A r \in resolve_dataproduct(tracker, l.target_file) :
                         r.ok /\ r.value = tracker._variable_cache[v]
       /\ l.op = "track" =>
             /\ l.status = "returned"
             /\ \A v \in hinted : <<tracker._variable_cache[v], l.value>> \in H
             /\ (hinted = {} /\ l.parents = << >>) =>
                   \A r \in H : r[2] # l.value
       /\ BothReturned("associate_variables", "track") =>
             \A v \in Range(l.variable_hints) \cap tracker.before.variables :
                 \E parent_id \in ProductsAt(ProductKey(tracker.before.target_file),
                                             Len(Db(tracker).DataProduct)) :
                     <<parent_id, l.value>> \in H

C29_Witness ==
    /\ BothReturned("associate_variables", "track")
    /\ tracker.last.variable_hints = <<1>>
    /\ tracker.before.variables = {1, 2}
    /\ tracker.last.parents = << >>
    /\ Db(tracker).DataProductHierarchy = {<<1, 2>>}

-----------------------------------------------------------------------------
(* Properties of the composite insert *)

\* The Environment row a step adds, if it adds one
NewEnvironments == (DOMAIN Environment') \ DOMAIN Environment

\* Process p makes this step out of the composite insert and ends raising
FailsInComposite(p) ==
    /\ pc[p] = "create_environment"
    /\ pc'[p] = "idle"
    /\ result'[p].status = "raised"

\* C30: the composite creation is atomic.  A step of the committed store that
\* adds an Environment row adds exactly one, made by a get_or_create_env in
\* its composite insert, together with one LibraryEnvironmentMap row per
\* resolved library id and one VariableEnvironmentMap row per resolved
\* variable id; and a get_or_create_env that fails inside the composite
\* insert leaves the three tables as they were.
C30_CompositeCreationAtomic ==
    [][/\ \A env_id \in NewEnvironments :
              /\ NewEnvironments = {env_id}
              /\ \E p \in Procs :
                    /\ pc[p] = "create_environment"
                    /\ result'[p] = Returned(env_id, TRUE, << >>)
                    /\ RowsOf(LibraryEnvironmentMap', env_id) =
                          {<<env_id, lib_id>> : lib_id \in Values(library_map[p])}
                    /\ RowsOf(VariableEnvironmentMap', env_id) =
                          {<<env_id, var_id>> : var_id \in Values(variable_map[p])}
       /\ \A p \in Procs :
              FailsInComposite(p) =>
                  UNCHANGED <<Environment, LibraryEnvironmentMap,
                              VariableEnvironmentMap>>]_vars

C30_Witness ==
    \E p \in Procs :
        /\ Finished(p, "get_or_create_env")
        /\ result[p].status = "raised"
        /\ result[p].exception = "DatabaseError"
        /\ call[p].environ # << >>
        /\ call[p].distributions # << >>
        /\ \E env_id \in DOMAIN Environment :
              /\ RowsOf(LibraryEnvironmentMap, env_id) # {}
              /\ RowsOf(VariableEnvironmentMap, env_id) # {}

-----------------------------------------------------------------------------
(* Properties of db_retry, attempts and waits *)

\* C31: when every attempt of a function wrapped by db_retry(max_retries=N),
\* N >= 1, fails with an error the wrapper catches, the function has been
\* invoked exactly N times when the fatal error is raised.
C31_InvokedMaxRetriesTimes ==
    (/\ retry.outcome = "raised"
     /\ retry.max_retries >= 1
     /\ retry.error \in Caught
     /\ retry.failures >= retry.max_retries)
        => retry.calls = retry.max_retries

\* C32: the wait after the k-th caught error is 0.5 * backoff_factor^(k-1)
\* seconds (InitialWait half seconds for k = 1), one wait is made per caught
\* error, and every invocation after the first is preceded by a wait.
C32_ExponentialBackoff ==
    retry.outcome # "idle" =>
        /\ \A k \in DOMAIN retry.slept :
              retry.slept[k] = InitialWait * retry.backoff_factor ^ (k - 1)
        /\ Len(retry.slept) = Cardinality({n \in 1..retry.calls :
                                   n <= retry.failures /\ retry.error \in Caught})
        /\ retry.calls <= Len(retry.slept) + 1

C32_Witness ==
    /\ retry.backoff_factor = 3
    /\ retry.calls = 4
    /\ retry.outcome = "returned"
    /\ retry.slept = <<1, 3, 9>>

-----------------------------------------------------------------------------
(* Properties of a failing set-matching read *)

\* C33: a database error raised by the set-matching lookup is not caught,
\* slept on or retried: the lookup is invoked once, nothing sleeps, and the
\* call ends raising that error.
C33_LookupErrorNotWrapped ==
    \A p \in Procs :
        (Ended(p) /\ entry.lookup.error # "none") =>
            /\ result[p].status = "raised"
            /\ result[p].exception = entry.lookup.error
            /\ entry.lookup.slept = << >>
            /\ entry.lookup.calls = 1

-----------------------------------------------------------------------------
(* Properties of concurrent calls that keep running *)

\* C34: every get_or_create_env call terminates in every interleaving with
\* the calls of the other process: no wrapper goes beyond attempt
\* DefaultMaxRetries, a running call always has a statement it can run (it
\* never waits for another caller), and it ends by returning (id, created)
\* or by raising.
C34_EveryCallTerminates ==
    /\ [](\A p \in Procs : current_try[p] <= DefaultMaxRetries)
    /\ [](\A p \in Procs : pc[p] # "idle" => ENABLED CallStep(p))
    /\ \A p \in Procs :
          (pc[p] # "idle") ~>
              (/\ pc[p] = "idle"
               /\ \/ result[p].status = "returned" /\ result[p].id # None
                  \/ result[p].status = "raised")

C34_Witness ==
    \E p, q \in Procs :
        /\ p # q
        /\ Finished(p, "get_or_create_env") /\ result[p].status = "raised"
        /\ Finished(q, "get_or_create_env") /\ result[q].status = "returned"
        /\ result[q].created
        /\ NoDuplicates(call[p].environ)

-----------------------------------------------------------------------------
(* Properties of calls whose lists repeat a pair *)

\* The call of p and the call that returned before it name the same host,
\* the same set of variable pairs and the same set of library pairs, and
\* one of the two lists repeats a pair
SameSetsWithDuplicates(p) ==
    /\ entry.last.status = "returned"
    /\ hostname[entry.last.proc] = hostname[p]
    /\ Range(entry.last.environ) = Range(call[p].environ)
    /\ Range(entry.last.distributions) = Range(call[p].distributions)
    /\ ~NoDuplicates(entry.last.environ) \/ ~NoDuplicates(call[p].environ)

\* C35: get_or_create_env treats its inputs as sets.  A call whose variable
\* list repeats a pair returns, and a call that follows a returned call
\* for the same sets, where one of the two lists repeats a pair, returns
\* the id of that call with created=False.
C35_DuplicatesAsSets ==
    \A p \in Procs :
        Ended(p) =>
            /\ ~NoDuplicates(call[p].environ) => result[p].status = "returned"
            /\ SameSetsWithDuplicates(p) =>
                  /\ result[p].status = "returned"
                  /\ result[p].id = entry.last.id
                  /\ ~result[p].created

-----------------------------------------------------------------------------
(* Properties of the ids the cache serves *)

\* The call of p was answered from the cache: it found an entry for its key
\* whose id is the id of a stored Environment row, and returned that id
ServedFromCache(p) ==
    /\ Ended(p)
    /\ entry.cached # None
    /\ entry.cached \in DOMAIN entry.Environment
    /\ result[p] = Returned(entry.cached, FALSE, << >>)

\* C36: an id served from the cache identifies an environment that matches
\* the request: the Environment stored with that id when the call is served
\* has the host of the caller and exactly the requested variable and
\* library sets.
C36_CachedIdMatchesRequest ==
    \A p \in Procs :
        ServedFromCache(p) =>
            /\ entry.Environment[result[p].id] = hostname[p]
            /\ PairsOf(entry.VariableEnvironmentMap, entry.Variable, result[p].id)
                  = Range(call[p].environ)
            /\ PairsOf(entry.LibraryEnvironmentMap, entry.Library, result[p].id)
                  = Range(call[p].distributions)

-----------------------------------------------------------------------------
(* Properties of a failed leaf batch *)

\* Process p makes this step out of an insert that breaks a unique
\* constraint
FailedLeafBatch(p) ==
    \/ /\ pc[p] = "variables_insert"
       /\ pc'[p] # "variables_insert"
       /\ ViolatesUnique(Variable, ToCreate(variable_map[p], call[p].environ))
    \/ /\ pc[p] = "libraries_insert"
       /\ pc'[p] # "libraries_insert"
       /\ ViolatesUnique(Library, ToCreate(library_map[p], call[p].distributions))

\* C37: a failed leaf batch leaves the store unchanged: the step of a bulk
\* reflection whose insert breaks a unique constraint commits none of the
\* rows of the attempt, the leaf tables are as before it.
C37_FailedBatchLeavesStore ==
    [][\A p \in Procs : FailedLeafBatch(p) => UNCHANGED <<Variable, Library>>]_vars

C37_Witness ==
    \E p \in Procs :
        /\ Finished(p, "reflect_variables_bulk")
        /\ result[p].status = "raised"
        /\ Len(call[p].environ) >= 2
        /\ call[p].environ[1] \notin Range(Variable)

-----------------------------------------------------------------------------
(* Properties of a lookup that found nothing *)

\* The lookup of the running get_or_create_env of p returned None: the call
\* is on its create path
LookupMissed(p) == call[p].op = "get_or_create_env" /\ pc[p] # "idle"

\* The environments stored by now that the query of p's call selects from
MatchingNow(p) ==
    MatchingEnvironments(call[p].environ, call[p].distributions, hostname[p])

\* C38: a lookup miss is never cached.  After the lookup of a call returned
\* None the cache of the process holds no entry for the key, and once
\* another process has committed a matching environment a lookup of this
\* process for the key returns a row of the store.
C38_MissNotCached ==
    \A p \in Procs :
        LookupMissed(p) =>
            /\ ~\E e \in cache[p] :
                  e[1] = get_key(call[p].environ, call[p].distributions, hostname[p])
            /\ MatchingNow(p) # {} =>
                  \A o \in LookupOutcomes(cache[p], call[p].environ,
                                          call[p].distributions, hostname[p]) :
                      o[1] \in MatchingNow(p)

C38_Witness ==
    \E p \in Procs :
        /\ LookupMissed(p)
        /\ MatchingNow(p) # {}
        /\ call[p].environ # << >>
        /\ \E q \in Procs \ {p} :
              /\ Finished(q, "get_or_create_env")
              /\ result[q].created
              /\ result[q].id \in MatchingNow(p)

-----------------------------------------------------------------------------
(* Properties of the product cache of the tracker *)

\* C39: the product cache is transparent: in every state the tracker
\* reaches, resolve_dataproduct(path) returns with _product_map as it is
\* the id it returns right after dump_cache().
C39_ProductCacheTransparent ==
    \A path \in InputPaths :
        \A cached \in resolve_dataproduct(tracker, path),
           dumped \in resolve_dataproduct(dump_cache(tracker), path) :
            (cached.ok /\ dumped.ok) => cached.value = dumped.value

=============================================================================
